---- MODULE Spec2Model ----
(***************************************************************************)
(* Game Action Engine of the fiefdom server: the validate/execute handlers *)
(* of src/server/ActionHandlers.cpp (build, demolish, move, upgrade,       *)
(* build_wall), the placement checker of src/server/GridCollision.cpp and  *)
(* the time-advance step of src/server/game_logic.cpp, over the three      *)
(* tables fiefdoms, fiefdom_buildings and fiefdom_walls of                 *)
(* src/server/init_db.cpp.                                                 *)
(*                                                                         *)
(* A JSON object is a function whose domain is its set of keys; a JSON     *)
(* array a[0..n-1] is the sequence a[1..n], so the C++ index i is i+1.     *)
(* Columns no handler reads (name, world x/y, wall_count, morale,          *)
(* last_updated, action_start_ts, action_tag) are left out of the rows.    *)
(***************************************************************************)
EXTENDS Integers, Sequences, FiniteSets, TLC

(***************************************************************************)
(* Bounds of the model.                                                    *)
(***************************************************************************)
MaxBuildingRows == 2        \* rows inserted into fiefdom_buildings after Init
MaxNow == 6                 \* last second of the wall clock
MaxMoraleRows == 2          \* buildings of a morale snapshot
MaxDebt == 6                \* actions that would leave a balance outside
MaxBalance == 16            \*   -MaxDebt..MaxBalance are not explored
ImmediateDelay == 1         \* seconds between two "immediate" calls

(***************************************************************************)
(* Program constants.                                                      *)
(***************************************************************************)
MAX_RANGE == 1000

ResourceFields == <<"gold", "wood", "stone", "steel", "bronze", "grain", "leather", "mana">>
CostFields == <<"gold_cost", "wood_cost", "stone_cost", "steel_cost", "bronze_cost", "grain_cost", "leather_cost", "mana_cost">>
ProductionFields == <<"peasants", "gold", "grain", "wood", "steel", "bronze", "stone", "leather", "mana">>

Range(s) == {s[i] : i \in DOMAIN s}
ResourceSet == Range(ResourceFields)

(***************************************************************************)
(* The configuration catalogue served by GameConfigCache.  The documents   *)
(* are data files; this is the catalogue the model runs with.              *)
(***************************************************************************)
FiefdomBuildingTypes ==
    [home_base |-> [width |-> 2, height |-> 2, max_level |-> 1,
                    gold_cost |-> <<4>>, wood_cost |-> <<2>>,
                    construction_times |-> <<1>>],
     farm      |-> [width |-> 2, height |-> 1, max_level |-> 2,
                    gold_cost |-> <<5, 3>>, wood_cost |-> <<1, 1>>,
                    steel_cost |-> <<1, 1>>,
                    construction_times |-> <<1, 1>>,
                    grain |-> [amount |-> 2, amount_multiplier |-> 1,
                               periodicity_seconds |-> 4]],
     storehouse |-> [width |-> 2, height |-> 1, max_level |-> 1,
                     gold_cost |-> <<3>>, construction_times |-> <<1>>],
     tower     |-> [width |-> 1, height |-> 1, max_level |-> 4,
                    gold_cost |-> <<1, 1, 1, 1>>, construction_times |-> <<1, 2>>]]

WallConfig ==
    [walls |-> [g \in {1, 2} |->
        IF g = 1
        THEN [width |-> 4, length |-> 4, thickness |-> 1,
              gold_cost |-> <<5, 5>>, stone_cost |-> <<2, 2>>,
              hp |-> <<10, 20>>, construction_times |-> <<1, 1>>]
        ELSE [width |-> 8, length |-> 8, thickness |-> 1,
              gold_cost |-> <<6>>, stone_cost |-> <<2>>,
              hp |-> <<15>>, construction_times |-> <<1>>]]]

(***************************************************************************)
(* The world of the model: two characters, each owning one fiefdom.        *)
(***************************************************************************)
FiefdomIds == {1, 2}

InitialFiefdomRow(owner) ==
    [owner_id |-> owner, peasants |-> 0,
     gold |-> 14, wood |-> 4, stone |-> 4, steel |-> 0,
     bronze |-> 0, grain |-> 0, leather |-> 0, mana |-> 0,
     last_update_time |-> 0]

(***************************************************************************)
(* Validation helpers (namespace GameLogic::Validation).  db is a record   *)
(* of the tables: the committed tables, or a transaction's working copy.   *)
(***************************************************************************)
BuildingsOf(db, fid) == {b \in db.fiefdom_buildings : b.fiefdom_id = fid}
WallsOf(db, fid) == {w \in db.fiefdom_walls : w.fiefdom_id = fid}
BuildingIds(db) == {b.id : b \in db.fiefdom_buildings}
WallIds(db) == {w.id : w \in db.fiefdom_walls}
BuildingRow(db, id) == CHOOSE b \in db.fiefdom_buildings : b.id = id
WallRow(db, id) == CHOOSE w \in db.fiefdom_walls : w.id = id

userOwnsFiefdom(db, ctx, fiefdom_id) ==
    /\ fiefdom_id \in DOMAIN db.fiefdoms
    /\ db.fiefdoms[fiefdom_id].owner_id = ctx.requesting_character_id

userOwnsBuilding(db, building_id, ctx) ==
    /\ building_id \in BuildingIds(db)
    /\ BuildingRow(db, building_id).fiefdom_id # 0
    /\ userOwnsFiefdom(db, ctx, BuildingRow(db, building_id).fiefdom_id)

buildingTypeExists(building_type) == building_type \in DOMAIN FiefdomBuildingTypes

getBuildingConfig(building_type) == FiefdomBuildingTypes[building_type]

hasCompletedHomeBase_AnyLevel(db, fiefdom_id) ==
    \E b \in BuildingsOf(db, fiefdom_id) : b.name = "home_base"

hasCompletedHomeBase(db, fiefdom_id) ==
    \E b \in BuildingsOf(db, fiefdom_id) : b.name = "home_base" /\ b.level > 0

\* SELECT gold, wood, ... FROM fiefdoms WHERE id = ?: the locals keep their
\* initial 0 when no row matches.
ReadBalances(db, fiefdom_id) ==
    [r \in ResourceSet |->
        IF fiefdom_id \in DOMAIN db.fiefdoms THEN db.fiefdoms[fiefdom_id][r] ELSE 0]

\* UPDATE fiefdoms SET gold = ?, ... WHERE id = ?: no row, no effect.
WriteBalances(db, fiefdom_id, bal) ==
    IF fiefdom_id \in DOMAIN db.fiefdoms
    THEN [db EXCEPT !.fiefdoms[fiefdom_id] =
              [k \in DOMAIN @ |-> IF k \in ResourceSet THEN bal[k] ELSE @[k]]]
    ELSE db

hasEnoughResources(db, fiefdom_id, costs) ==
    LET bal == ReadBalances(db, fiefdom_id)
    IN  \A r \in ResourceSet : r \in DOMAIN costs => ~(bal[r] < costs[r])

ResourceDiffs(fiefdom_id, keys, bal, delta) ==
    [i \in 1..Len(keys) |->
        [field |-> keys[i], source_type |-> "fiefdom", source_id |-> fiefdom_id,
         entity_key |-> "fiefdom_id",
         from_value |-> bal[keys[i]], to_value |-> bal[keys[i]] + delta[keys[i]]]]

\* Subtracts every cost whose key is a resource name, appends one diff per
\* such key and writes the eight balances back.  There is no check that a
\* balance stays non-negative and the returned status is always OK.
deductResources(db, fiefdom_id, costs, side_effects) ==
    IF DOMAIN costs = {}
    THEN [db |-> db, side_effects |-> side_effects]
    ELSE LET bal == ReadBalances(db, fiefdom_id)
             keys == SelectSeq(ResourceFields, LAMBDA r : r \in DOMAIN costs)
             delta == [r \in ResourceSet |-> IF r \in DOMAIN costs THEN 0 - costs[r] ELSE 0]
         IN  [db |-> WriteBalances(db, fiefdom_id, [r \in ResourceSet |-> bal[r] + delta[r]]),
              side_effects |-> side_effects \o ResourceDiffs(fiefdom_id, keys, bal, delta)]

refundResources(db, fiefdom_id, amounts, side_effects) ==
    LET bal == ReadBalances(db, fiefdom_id)
        keys == SelectSeq(ResourceFields, LAMBDA r : r \in DOMAIN amounts)
        delta == [r \in ResourceSet |-> IF r \in DOMAIN amounts THEN amounts[r] ELSE 0]
    IN  [db |-> WriteBalances(db, fiefdom_id, [r \in ResourceSet |-> bal[r] + delta[r]]),
         side_effects |-> side_effects \o ResourceDiffs(fiefdom_id, keys, bal, delta)]

(***************************************************************************)
(* Spatial placement checker (namespace GameLogic::GridCollision).         *)
(***************************************************************************)
Rect(x, y, width, height) == [x |-> x, y |-> y, width |-> width, height |-> height]

overlaps(a, b) ==
    /\ a.x < b.x + b.width
    /\ a.x + a.width > b.x
    /\ a.y < b.y + b.height
    /\ a.y + a.height > b.y

\* config.value("width", 1) / value("height", 1); valid = false and 1 x 1
\* for a type the catalogue does not know.
getBuildingDimensions(building_type) ==
    IF building_type \in DOMAIN FiefdomBuildingTypes
    THEN LET config == FiefdomBuildingTypes[building_type]
         IN  [width |-> IF "width" \in DOMAIN config THEN config.width ELSE 1,
              height |-> IF "height" \in DOMAIN config THEN config.height ELSE 1,
              valid |-> TRUE]
    ELSE [width |-> 1, height |-> 1, valid |-> FALSE]

BuildingRect(b) ==
    Rect(b.x, b.y, getBuildingDimensions(b.name).width, getBuildingDimensions(b.name).height)

isValidPosition_Unbounded(x, y) == TRUE

isValidPosition(x, y) ==
    x >= 0 - MAX_RANGE /\ x <= MAX_RANGE /\ y >= 0 - MAX_RANGE /\ y <= MAX_RANGE

checkPlacement(db, fiefdom_id, building_type, x, y, check_home_base_position, exclude_building_id) ==
    IF ~isValidPosition(x, y)
    THEN [valid |-> FALSE, overlapping_building_ids |-> {}]
    ELSE IF building_type = "home_base" /\ check_home_base_position /\ (x # 0 \/ y # 0)
    THEN [valid |-> FALSE, overlapping_building_ids |-> {}]
    ELSE IF ~getBuildingDimensions(building_type).valid
    THEN [valid |-> FALSE, overlapping_building_ids |-> {}]
    ELSE LET newDims == getBuildingDimensions(building_type)
             newRect == Rect(x, y, newDims.width, newDims.height)
             existingBuildings ==
                 IF exclude_building_id > 0
                 THEN {b \in BuildingsOf(db, fiefdom_id) : b.id # exclude_building_id}
                 ELSE BuildingsOf(db, fiefdom_id)
             hits == {b.id : b \in {e \in existingBuildings : overlaps(newRect, BuildingRect(e))}}
         IN  [valid |-> hits = {}, overlapping_building_ids |-> hits]

canBuildBuildingHere_AnyAnchor(db, building_type, fiefdom_id, x, y) ==
    checkPlacement(db, fiefdom_id, building_type, x, y, FALSE, 0).valid

canBuildBuildingHere(db, building_type, fiefdom_id, x, y) ==
    checkPlacement(db, fiefdom_id, building_type, x, y, building_type = "home_base", 0).valid

\* GameConfigCache::loaded_: whether initialize read every document at
\* startup.  The documents the handlers read (the building types and the
\* wall configuration) are the catalogue above; a load that failed lost one
\* of the others (damage types, combatants, heroes, officials).
VARIABLE loaded_

\* The cache's wall_config document, looked up by the generation's key;
\* nothing is found while the cache is not loaded.
hasWallConfig(generation) == loaded_ /\ generation \in DOMAIN WallConfig.walls
getWallConfigByGeneration(generation) == WallConfig.walls[generation]

getWallDimensions(generation) ==
    IF hasWallConfig(generation)
    THEN LET config == getWallConfigByGeneration(generation)
         IN  [width |-> config.width, length |-> config.length, thickness |-> config.thickness]
    ELSE [width |-> 0, length |-> 0, thickness |-> 0]

\* The four edge rectangles of a generation's perimeter: north, south,
\* east, west.  All configured sizes are positive, so C++ int division
\* is \div.
WallRects(generation) ==
    LET dims == getWallDimensions(generation)
        half_w == dims.width \div 2
        half_l == dims.length \div 2
        thick == dims.thickness
    IN  {Rect(0 - half_w, half_l, dims.width, thick),
         Rect(0 - half_w, 0 - half_l - thick, dims.width, thick),
         Rect(half_w, 0 - half_l, thick, dims.length),
         Rect(0 - half_w - thick, 0 - half_l, thick, dims.length)}

overlapsWalls(generation, x, y, building_width, building_height) ==
    LET dims == getWallDimensions(generation)
    IN  IF dims.width = 0 \/ dims.length = 0 \/ dims.thickness = 0
        THEN FALSE
        ELSE \E wall_rect \in WallRects(generation) :
                 overlaps(Rect(x, y, building_width, building_height), wall_rect)

(***************************************************************************)
(* Costs and refunds.                                                      *)
(***************************************************************************)
RECURSIVE SumFirst(_, _)
SumFirst(costs, n) == IF n <= 0 THEN 0 ELSE costs[n] + SumFirst(costs, n - 1)

Min(a, b) == IF a < b THEN a ELSE b

ResourceIndex(r) == CHOOSE i \in 1..8 : ResourceFields[i] = r

\* total of costs[0 .. current_level-1] per resource; a resource whose
\* total is 0 gets no key.
calculateCumulativeCost(building_type, current_level) ==
    IF ~buildingTypeExists(building_type)
    THEN <<>>
    ELSE LET config == getBuildingConfig(building_type)
             total(i) == SumFirst(config[CostFields[i]], Min(current_level, Len(config[CostFields[i]])))
             keys == {ResourceFields[i] : i \in {j \in 1..8 : CostFields[j] \in DOMAIN config /\ total(j) > 0}}
         IN  [r \in keys |-> total(ResourceIndex(r))]

\* static_cast<int>(value * 0.8) of a non-negative int.
RefundOf_Full(cumulative) == [k \in DOMAIN cumulative |-> cumulative[k]]

RefundOf(cumulative) == [k \in DOMAIN cumulative |-> (cumulative[k] * 8) \div 10]

getDemolishRefund(db, building_id) ==
    IF building_id \notin BuildingIds(db)
    THEN <<>>
    ELSE RefundOf(calculateCumulativeCost(BuildingRow(db, building_id).name,
                                          BuildingRow(db, building_id).level))

(***************************************************************************)
(* Row writes of the store.                                                *)
(***************************************************************************)
createBuilding(db, fiefdom_id, name, level, construction_start_ts, x, y) ==
    LET id == db.sqlite_sequence.fiefdom_buildings + 1
    IN  [db EXCEPT !.fiefdom_buildings = @ \cup
                       {[id |-> id, fiefdom_id |-> fiefdom_id, name |-> name, level |-> level,
                         x |-> x, y |-> y, construction_start_ts |-> construction_start_ts]},
                   !.sqlite_sequence.fiefdom_buildings = id]

deleteBuilding(db, building_id) ==
    [db EXCEPT !.fiefdom_buildings = {b \in @ : b.id # building_id}]

updateBuildingPosition(db, building_id, x, y) ==
    [db EXCEPT !.fiefdom_buildings =
        {IF b.id = building_id THEN [b EXCEPT !.x = x, !.y = y] ELSE b : b \in @}]

updateBuildingLevel(db, building_id, new_level) ==
    [db EXCEPT !.fiefdom_buildings =
        {IF b.id = building_id
         THEN [b EXCEPT !.level = new_level, !.construction_start_ts = 0]
         ELSE b : b \in @}]

updateBuildingConstructionStart(db, building_id, construction_start_ts) ==
    [db EXCEPT !.fiefdom_buildings =
        {IF b.id = building_id
         THEN [b EXCEPT !.construction_start_ts = construction_start_ts]
         ELSE b : b \in @}]

createWall(db, fiefdom_id, generation, level, hp, construction_start_ts) ==
    LET id == db.sqlite_sequence.fiefdom_walls + 1
    IN  [db EXCEPT !.fiefdom_walls = @ \cup
                       {[id |-> id, fiefdom_id |-> fiefdom_id, generation |-> generation,
                         level |-> level, hp |-> hp,
                         construction_start_ts |-> construction_start_ts]},
                   !.sqlite_sequence.fiefdom_walls = id]

updateWallLevel(db, wall_id, new_level, new_hp) ==
    [db EXCEPT !.fiefdom_walls =
        {IF w.id = wall_id
         THEN [w EXCEPT !.level = new_level, !.hp = new_hp, !.construction_start_ts = 0]
         ELSE w : w \in @}]

(***************************************************************************)
(* Action handlers.  Each operator is one call of the handler on the       *)
(* committed tables db: it yields the ActionResult together with the       *)
(* tables the call leaves behind (db itself unless the TransactionGuard    *)
(* committed).  fault names the statement of the store that fails during   *)
(* the call: "resource_write" makes the UPDATE of deductResources or       *)
(* refundResources throw, "row_write" makes the handler's row write        *)
(* (INSERT, DELETE or UPDATE of a building or wall) fail.                  *)
(***************************************************************************)
Faults == {"none", "resource_write", "row_write"}

Outcome(status, error_code, db, side_effects, result) ==
    [status |-> status, error_code |-> error_code, db |-> db,
     side_effects |-> side_effects, result |-> result]

Verdict(status, error_code) == [status |-> status, error_code |-> error_code]

\* A payload field whose JSON value has the wrong type (a string where the
\* handler converts to int): the payload lists such keys under "mistyped".
\* The conversion int v = payload[key] then throws nlohmann's type_error;
\* validate has no try block, so the exception leaves validate, and leaves
\* execute as well, which calls validate before its own try block.
Mistyped(payload, key) == "mistyped" \in DOMAIN payload /\ key \in payload.mistyped

Thrown == Verdict("THROWN", "type_error")

\* if (validate_result.status != ActionStatus::OK) return validate_result;
ReturnValidateResult_Generic(validate_result, db) ==
    Outcome("FAIL", "validation_failed", db, <<>>, <<>>)

ReturnValidateResult(validate_result, db) ==
    Outcome(validate_result.status, validate_result.error_code, db, <<>>, <<>>)

\* The test of demolish and move on the name of the building they target.
IsHomeBase_Never(building_name) == FALSE

IsHomeBase(building_name) == building_name = "home_base"

\* --- build ---
BuildActionHandler_validate(db, payload, ctx) ==
    IF "fiefdom_id" \notin DOMAIN payload THEN Verdict("FAIL", "fiefdom_id_required")
    ELSE IF "building_type" \notin DOMAIN payload THEN Verdict("FAIL", "building_type_required")
    ELSE IF Mistyped(payload, "fiefdom_id") \/ Mistyped(payload, "building_type") THEN Thrown
    ELSE IF ~userOwnsFiefdom(db, ctx, payload.fiefdom_id) THEN Verdict("FAIL", "not_owner")
    ELSE IF ~buildingTypeExists(payload.building_type) THEN Verdict("FAIL", "unknown_building")
    ELSE IF payload.building_type = "home_base" /\ hasCompletedHomeBase(db, payload.fiefdom_id)
         THEN Verdict("FAIL", "home_base_exists")
    ELSE IF payload.building_type # "home_base" /\ ~hasCompletedHomeBase(db, payload.fiefdom_id)
         THEN Verdict("FAIL", "home_base_required")
    ELSE IF "x" \notin DOMAIN payload \/ "y" \notin DOMAIN payload
         THEN Verdict("FAIL", "coordinates_required")
    ELSE IF Mistyped(payload, "x") \/ Mistyped(payload, "y") THEN Thrown
    ELSE IF ~canBuildBuildingHere(db, payload.building_type, payload.fiefdom_id, payload.x, payload.y)
         THEN Verdict("FAIL", "invalid_location")
    ELSE Verdict("OK", "")

\* The level-0 costs execute deducts: gold, wood and stone only.
BuildCosts(config) ==
    [r \in {ResourceFields[i] : i \in {j \in 1..3 : CostFields[j] \in DOMAIN config}} |->
        config[CostFields[ResourceIndex(r)]][1]]

BuildActionHandler_execute(db, payload, ctx, now, fault) ==
    LET v == BuildActionHandler_validate(db, payload, ctx)
    IN  IF v.status # "OK" THEN ReturnValidateResult(v, db)
        ELSE
        LET config == getBuildingConfig(payload.building_type)
            costs == BuildCosts(config)
            d == deductResources(db, payload.fiefdom_id, costs, <<>>)
        IN  IF fault = "resource_write" /\ DOMAIN costs # {}
            THEN Outcome("FAIL", "database_error", db, d.side_effects, <<>>)
            ELSE IF fault = "row_write"
            THEN Outcome("FAIL", "database_error", db, d.side_effects, <<>>)
            ELSE Outcome("OK", "",
                         createBuilding(d.db, payload.fiefdom_id, payload.building_type, 0, now,
                                        payload.x, payload.y),
                         d.side_effects,
                         [building_type |-> payload.building_type, fiefdom_id |-> payload.fiefdom_id,
                          x |-> payload.x, y |-> payload.y, construction_start_ts |-> now,
                          level |-> 0])

\* --- demolish ---
DemolishActionHandler_validate(db, payload, ctx) ==
    IF "building_id" \notin DOMAIN payload THEN Verdict("FAIL", "building_id_required")
    ELSE IF Mistyped(payload, "building_id") THEN Thrown
    ELSE IF ~userOwnsBuilding(db, payload.building_id, ctx) THEN Verdict("FAIL", "not_owner")
    ELSE IF IsHomeBase(BuildingRow(db, payload.building_id).name)
         THEN Verdict("FAIL", "home_base_immutable")
    ELSE Verdict("OK", "")

\* The refund is credited to ctx.requesting_fiefdom_id, and the value
\* deleteBuilding returns is not looked at.
DemolishActionHandler_execute(db, payload, ctx, now, fault) ==
    LET v == DemolishActionHandler_validate(db, payload, ctx)
    IN  IF v.status # "OK" THEN ReturnValidateResult(v, db)
        ELSE
        LET b == BuildingRow(db, payload.building_id)
            refund == RefundOf(calculateCumulativeCost(b.name, b.level))
            r == refundResources(db, ctx.requesting_fiefdom_id, refund, <<>>)
        IN  IF fault = "resource_write"
            THEN Outcome("FAIL", "database_error", db, r.side_effects, <<>>)
            ELSE Outcome("OK", "",
                         IF fault = "row_write" THEN r.db ELSE deleteBuilding(r.db, payload.building_id),
                         r.side_effects,
                         [building_id |-> payload.building_id, refund |-> refund])

\* --- move ---
MoveBuildingActionHandler_validate(db, payload, ctx) ==
    IF "building_id" \notin DOMAIN payload THEN Verdict("FAIL", "building_id_required")
    ELSE IF "x" \notin DOMAIN payload \/ "y" \notin DOMAIN payload
         THEN Verdict("FAIL", "coordinates_required")
    ELSE IF Mistyped(payload, "building_id") \/ Mistyped(payload, "x") \/ Mistyped(payload, "y")
         THEN Thrown
    ELSE IF ~userOwnsBuilding(db, payload.building_id, ctx) THEN Verdict("FAIL", "not_owner")
    ELSE IF IsHomeBase(BuildingRow(db, payload.building_id).name)
         THEN Verdict("FAIL", "home_base_immutable")
    ELSE IF BuildingRow(db, payload.building_id).level <= 0
         THEN Verdict("FAIL", "cannot_move_under_construction")
    ELSE IF ~checkPlacement(db, ctx.requesting_fiefdom_id, BuildingRow(db, payload.building_id).name,
                            payload.x, payload.y, FALSE, payload.building_id).valid
         THEN Verdict("FAIL", "move_location_invalid")
    ELSE Verdict("OK", "")

\* full_cost / 10 of costs[level - 1], for each of the eight cost arrays
\* the type configures.
MoveCost(building_name, level) ==
    IF ~buildingTypeExists(building_name)
    THEN <<>>
    ELSE LET config == getBuildingConfig(building_name)
             has(i) == /\ CostFields[i] \in DOMAIN config
                       /\ level - 1 >= 0
                       /\ level - 1 < Len(config[CostFields[i]])
         IN  [r \in {ResourceFields[i] : i \in {j \in 1..8 : has(j)}} |->
                 config[CostFields[ResourceIndex(r)]][level] \div 10]

MoveBuildingActionHandler_execute(db, payload, ctx, now, fault) ==
    LET v == MoveBuildingActionHandler_validate(db, payload, ctx)
    IN  IF v.status # "OK" THEN ReturnValidateResult(v, db)
        ELSE
        LET b == BuildingRow(db, payload.building_id)
            cost == MoveCost(b.name, b.level)
            d == deductResources(db, ctx.requesting_fiefdom_id, cost, <<>>)
        IN  IF fault = "resource_write" /\ DOMAIN cost # {}
            THEN Outcome("FAIL", "database_error", db, d.side_effects, <<>>)
            ELSE IF fault = "row_write"
            THEN Outcome("FAIL", "database_error", db, d.side_effects, <<>>)
            ELSE Outcome("OK", "",
                         updateBuildingPosition(d.db, payload.building_id, payload.x, payload.y),
                         d.side_effects,
                         [building_id |-> payload.building_id, new_x |-> payload.x,
                          new_y |-> payload.y, cost |-> cost])

\* --- build_wall ---
wallGenerationExists(db, fiefdom_id, generation) ==
    \E w \in WallsOf(db, fiefdom_id) : w.generation = generation

hasWallGeneration_Never(db, fiefdom_id, generation) == FALSE

hasWallGeneration(db, fiefdom_id, generation) == wallGenerationExists(db, fiefdom_id, generation)

\* wall_generation > 1 && !hasWallGeneration(fiefdom_id, wall_generation - 1)
WallSequenceMissing_Never(db, fiefdom_id, wall_generation) == FALSE

WallSequenceMissing(db, fiefdom_id, wall_generation) ==
    wall_generation > 1 /\ ~hasWallGeneration(db, fiefdom_id, wall_generation - 1)

\* Only the gold and stone arrays of the generation are looked at.
WallCostAt(generation, index) ==
    IF ~hasWallConfig(generation)
    THEN <<>>
    ELSE LET config == getWallConfigByGeneration(generation)
             has(i) == /\ CostFields[i] \in DOMAIN config
                       /\ index >= 1
                       /\ index <= Len(config[CostFields[i]])
         IN  [r \in {ResourceFields[i] : i \in {j \in {1, 3} : has(j)}} |->
                 config[CostFields[ResourceIndex(r)]][index]]

canAffordWall(db, fiefdom_id, generation, level) ==
    /\ hasWallConfig(generation)
    /\ LET cost == WallCostAt(generation, level)
           bal == ReadBalances(db, fiefdom_id)
       IN  \A r \in DOMAIN cost : ~(bal[r] < cost[r])

getWallHP_NextLevel(generation, level) ==
    IF ~hasWallConfig(generation) THEN 0
    ELSE LET config == getWallConfigByGeneration(generation)
         IN  IF "hp" \in DOMAIN config /\ level + 1 > 0 /\ level + 1 <= Len(config.hp)
             THEN config.hp[level + 1]
             ELSE 0

getWallHP(generation, level) ==
    IF ~hasWallConfig(generation) THEN 0
    ELSE LET config == getWallConfigByGeneration(generation)
         IN  IF "hp" \in DOMAIN config /\ level > 0 /\ level <= Len(config.hp)
             THEN config.hp[level]
             ELSE 0

\* costs[current_level], the cost of the level after current_level.
calculateWallUpgradeCost(generation, current_level) == WallCostAt(generation, current_level + 1)

BuildWallActionHandler_validate(db, payload, ctx) ==
    IF "fiefdom_id" \notin DOMAIN payload THEN Verdict("FAIL", "fiefdom_id_required")
    ELSE IF "wall_generation" \notin DOMAIN payload THEN Verdict("FAIL", "wall_generation_required")
    ELSE IF Mistyped(payload, "fiefdom_id") \/ Mistyped(payload, "wall_generation") THEN Thrown
    ELSE IF ~userOwnsFiefdom(db, ctx, payload.fiefdom_id) THEN Verdict("FAIL", "not_owner")
    ELSE IF ~hasWallConfig(payload.wall_generation) THEN Verdict("FAIL", "generation_invalid")
    ELSE IF WallSequenceMissing(db, payload.fiefdom_id, payload.wall_generation)
         THEN Verdict("FAIL", "generation_sequence_required")
    ELSE IF hasWallGeneration(db, payload.fiefdom_id, payload.wall_generation)
         THEN Verdict("FAIL", "generation_exists")
    ELSE IF ~canAffordWall(db, payload.fiefdom_id, payload.wall_generation, 1)
         THEN Verdict("FAIL", "insufficient_resources")
    ELSE Verdict("OK", "")

MinId(ids) == CHOOSE i \in ids : \A j \in ids : i <= j

\* The operational buildings of the fiefdom the new perimeter overlaps,
\* as selected before the loop (level > 0, in row order).
WallOverlapIds(db, fiefdom_id, generation) ==
    {b.id : b \in {e \in BuildingsOf(db, fiefdom_id) :
                      /\ e.level > 0
                      /\ overlapsWalls(generation, e.x, e.y,
                                       getBuildingDimensions(e.name).width,
                                       getBuildingDimensions(e.name).height)}}

\* The loop of execute over the overlapping buildings: refund, record,
\* delete.  acc carries the working tables, the diffs and the records.
RECURSIVE CascadeDemolish(_, _, _)
CascadeDemolish(acc, fiefdom_id, ids) ==
    IF ids = {} THEN acc
    ELSE LET building_id == MinId(ids)
             refund == getDemolishRefund(acc.db, building_id)
             r == refundResources(acc.db, fiefdom_id, refund, acc.side_effects)
             demo == [building_id |-> building_id,
                      building_type |-> BuildingRow(acc.db, building_id).name,
                      refund |-> refund]
         IN  CascadeDemolish([db |-> deleteBuilding(r.db, building_id),
                              side_effects |-> r.side_effects,
                              demolished_buildings |-> Append(acc.demolished_buildings, demo)],
                             fiefdom_id, ids \ {building_id})

BuildWallActionHandler_execute(db, payload, ctx, now, fault) ==
    LET v == BuildWallActionHandler_validate(db, payload, ctx)
    IN  IF v.status # "OK" THEN ReturnValidateResult(v, db)
        ELSE
        LET fiefdom_id == payload.fiefdom_id
            wall_generation == payload.wall_generation
            config == getWallConfigByGeneration(wall_generation)
            cost == WallCostAt(wall_generation, 1)
            d == deductResources(db, fiefdom_id, cost, <<>>)
            ids == WallOverlapIds(d.db, fiefdom_id, wall_generation)
            first == CascadeDemolish([db |-> d.db, side_effects |-> d.side_effects,
                                      demolished_buildings |-> <<>>],
                                     fiefdom_id, IF ids = {} THEN {} ELSE {MinId(ids)})
            c == CascadeDemolish([db |-> d.db, side_effects |-> d.side_effects,
                                  demolished_buildings |-> <<>>], fiefdom_id, ids)
            initial_hp == getWallHP(wall_generation, 1)
            created == createWall(c.db, fiefdom_id, wall_generation, 1, initial_hp, now)
        IN  IF fault = "resource_write" /\ DOMAIN cost # {}
            THEN Outcome("FAIL", "database_error", db, d.side_effects, <<>>)
            ELSE IF fault = "resource_write" /\ ids # {}
            THEN Outcome("FAIL", "database_error", db, first.side_effects, <<>>)
            ELSE IF fault = "row_write"
            THEN Outcome("FAIL", "database_error", db, first.side_effects, <<>>)
            ELSE Outcome("OK", "", created, c.side_effects,
                         [wall_id |-> created.sqlite_sequence.fiefdom_walls,
                          generation |-> wall_generation, level |-> 1, hp |-> initial_hp,
                          width |-> config.width, length |-> config.length,
                          thickness |-> config.thickness, cost |-> cost,
                          demolished_buildings |-> c.demolished_buildings])

\* --- upgrade ---
\* costs[current_level] of every configured cost array, keyed by the NAME
\* OF THE COST FIELD ("gold_cost", ...), as both validate and execute
\* build it.
BuildingNextCost(building_name, current_level) ==
    LET config == getBuildingConfig(building_name)
        has(i) == /\ CostFields[i] \in DOMAIN config
                  /\ current_level > 0
                  /\ current_level < Len(config[CostFields[i]])
    IN  [f \in {CostFields[i] : i \in {j \in 1..8 : has(j)}} |-> config[f][current_level + 1]]

BuildingMaxLevel_PlusOne(building_name) ==
    LET config == getBuildingConfig(building_name)
    IN  IF "max_level" \in DOMAIN config THEN config.max_level + 1 ELSE 2

\* config_opt->value("max_level", 1)
BuildingMaxLevel(building_name) ==
    LET config == getBuildingConfig(building_name)
    IN  IF "max_level" \in DOMAIN config THEN config.max_level ELSE 1

WallMaxLevel(generation) ==
    LET config == getWallConfigByGeneration(generation)
    IN  IF "hp" \in DOMAIN config THEN Len(config.hp) ELSE 0

UpgradeValidateBuilding_AnyLevel(db, fiefdom_id, building_id) ==
    IF building_id \notin BuildingIds(db) \/ BuildingRow(db, building_id).fiefdom_id # fiefdom_id
    THEN Verdict("FAIL", "not_owner")
    ELSE LET b == BuildingRow(db, building_id)
         IN  IF b.level = 0 THEN Verdict("FAIL", "upgrade_in_progress")
             ELSE IF ~buildingTypeExists(b.name) THEN Verdict("FAIL", "invalid_config")
             ELSE IF ~hasEnoughResources(db, fiefdom_id, BuildingNextCost(b.name, b.level))
                  THEN Verdict("FAIL", "insufficient_resources")
             ELSE Verdict("OK", "")

UpgradeValidateBuilding(db, fiefdom_id, building_id) ==
    IF building_id \notin BuildingIds(db) \/ BuildingRow(db, building_id).fiefdom_id # fiefdom_id
    THEN Verdict("FAIL", "not_owner")
    ELSE LET b == BuildingRow(db, building_id)
         IN  IF b.level = 0 THEN Verdict("FAIL", "upgrade_in_progress")
             ELSE IF ~buildingTypeExists(b.name) THEN Verdict("FAIL", "invalid_config")
             ELSE IF b.level >= BuildingMaxLevel(b.name) THEN Verdict("FAIL", "max_level_reached")
             ELSE IF ~hasEnoughResources(db, fiefdom_id, BuildingNextCost(b.name, b.level))
                  THEN Verdict("FAIL", "insufficient_resources")
             ELSE Verdict("OK", "")

UpgradeValidateWall(db, fiefdom_id, wall_id) ==
    IF wall_id \notin WallIds(db) \/ WallRow(db, wall_id).fiefdom_id # fiefdom_id
    THEN Verdict("FAIL", "not_owner")
    ELSE LET w == WallRow(db, wall_id)
         IN  IF w.level = 0 THEN Verdict("FAIL", "upgrade_in_progress")
             ELSE IF ~hasWallConfig(w.generation) THEN Verdict("FAIL", "invalid_config")
             ELSE IF w.level >= WallMaxLevel(w.generation) THEN Verdict("FAIL", "max_level_reached")
             ELSE IF ~hasEnoughResources(db, fiefdom_id, calculateWallUpgradeCost(w.generation, w.level))
                  THEN Verdict("FAIL", "insufficient_resources")
             ELSE Verdict("OK", "")

UpgradeActionHandler_validate(db, payload, ctx) ==
    IF "fiefdom_id" \notin DOMAIN payload THEN Verdict("FAIL", "fiefdom_id_required")
    ELSE IF "building_id" \notin DOMAIN payload /\ "wall_id" \notin DOMAIN payload
         THEN Verdict("FAIL", "upgrade_id_required")
    ELSE IF Mistyped(payload, "fiefdom_id") THEN Thrown
    ELSE IF ~userOwnsFiefdom(db, ctx, payload.fiefdom_id) THEN Verdict("FAIL", "not_owner")
    ELSE IF "building_id" \in DOMAIN payload /\ Mistyped(payload, "building_id") THEN Thrown
    ELSE IF /\ "building_id" \in DOMAIN payload
            /\ UpgradeValidateBuilding(db, payload.fiefdom_id, payload.building_id).status # "OK"
         THEN UpgradeValidateBuilding(db, payload.fiefdom_id, payload.building_id)
    ELSE IF "wall_id" \in DOMAIN payload /\ Mistyped(payload, "wall_id") THEN Thrown
    ELSE IF /\ "wall_id" \in DOMAIN payload
            /\ UpgradeValidateWall(db, payload.fiefdom_id, payload.wall_id).status # "OK"
         THEN UpgradeValidateWall(db, payload.fiefdom_id, payload.wall_id)
    ELSE Verdict("OK", "")

\* The building branch of execute: deduct next_cost, then schedule the
\* level transition by writing construction_start_ts = now.
UpgradeBuildingStep(acc, fiefdom_id, building_id, now) ==
    LET b == BuildingRow(acc.db, building_id)
        next_cost == BuildingNextCost(b.name, b.level)
        d == deductResources(acc.db, fiefdom_id, next_cost, acc.side_effects)
    IN  [db |-> updateBuildingConstructionStart(d.db, building_id, now),
         side_effects |-> d.side_effects,
         deducted |-> DOMAIN next_cost # {},
         result |-> [building_id |-> building_id, upgrade_to_level |-> b.level + 1,
                     cost |-> next_cost]]

\* The wall branch of execute: deduct, then write level + 1 and its hp.
UpgradeWallStep(acc, fiefdom_id, wall_id, now) ==
    LET w == WallRow(acc.db, wall_id)
        cost == calculateWallUpgradeCost(w.generation, w.level)
        d == deductResources(acc.db, fiefdom_id, cost, acc.side_effects)
        new_hp == getWallHP(w.generation, w.level + 1)
    IN  [db |-> updateWallLevel(d.db, wall_id, w.level + 1, new_hp),
         side_effects |-> d.side_effects,
         deducted |-> DOMAIN cost # {},
         result |-> [wall_id |-> wall_id, upgrade_to_level |-> w.level + 1,
                     new_hp |-> new_hp, cost |-> cost] @@ acc.result]

UpgradeActionHandler_execute(db, payload, ctx, now, fault) ==
    LET v == UpgradeActionHandler_validate(db, payload, ctx)
    IN  IF v.status # "OK" THEN ReturnValidateResult(v, db)
        ELSE
        LET start == [db |-> db, side_effects |-> <<>>, deducted |-> FALSE, result |-> <<>>]
            afterB == IF "building_id" \in DOMAIN payload
                      THEN UpgradeBuildingStep(start, payload.fiefdom_id, payload.building_id, now)
                      ELSE start
            afterW == IF "wall_id" \in DOMAIN payload
                      THEN UpgradeWallStep(afterB, payload.fiefdom_id, payload.wall_id, now)
                      ELSE afterB
            firstStep == IF "building_id" \in DOMAIN payload THEN afterB ELSE afterW
        IN  IF fault = "resource_write" /\ firstStep.deducted
            THEN Outcome("FAIL", "database_error", db, firstStep.side_effects, <<>>)
            ELSE IF fault = "resource_write" /\ afterW.deducted
            THEN Outcome("FAIL", "database_error", db, afterW.side_effects, afterB.result)
            ELSE IF fault = "row_write"
            THEN Outcome("FAIL", "database_error", db, firstStep.side_effects, <<>>)
            ELSE Outcome("OK", "", afterW.db, afterW.side_effects, afterW.result)

(***************************************************************************)
(* Time advance (GameLogic::updateStateSince).  Time is in seconds; the    *)
(* catalogue's periodicity is kept in seconds per cycle, so that           *)
(* full_cycles = floor(elapsed_hours / periodicity_hours) is               *)
(* elapsed_seconds \div periodicity_seconds.                               *)
(***************************************************************************)
\* time_hours_elapsed < 0.001, with time_hours_elapsed = elapsed / 3600.0
ShortCircuit_NegativeOnly(elapsed_seconds) == elapsed_seconds < 0

ShortCircuit(elapsed_seconds) == elapsed_seconds * 1000 < 3600

ConstructionSeconds_LastEntry(config, level) ==
    IF "construction_times" \notin DOMAIN config THEN 0
    ELSE LET times == config.construction_times
         IN  IF Len(times) = 0 THEN 0
             ELSE IF level < Len(times) THEN times[level + 1]
             ELSE times[Len(times)]

\* The duration of level -> level + 1: times[level], extrapolated along
\* the last two entries when level overruns the array.
ConstructionSeconds(config, level) ==
    IF "construction_times" \notin DOMAIN config THEN 0
    ELSE LET times == config.construction_times
             max_index == Len(times) - 1
         IN  IF level <= max_index THEN times[level + 1]
             ELSE IF max_index >= 1
                  THEN times[max_index + 1] + (times[max_index + 1] - times[max_index]) * (level - max_index)
             ELSE IF Len(times) > 0 THEN times[1]
             ELSE 0

Completes(config, level, construction_start_ts, new_timestamp) ==
    /\ construction_start_ts > 0
    /\ ConstructionSeconds(config, level) > 0
    /\ new_timestamp - construction_start_ts >= ConstructionSeconds(config, level)

\* First loop: buildings whose construction is over move up one level.
RECURSIVE AdvanceBuildings(_, _, _)
AdvanceBuildings(acc, ids, new_timestamp) ==
    IF ids = {} THEN acc
    ELSE LET id == MinId(ids)
             b == BuildingRow(acc.db, id)
             done == /\ buildingTypeExists(b.name)
                     /\ Completes(getBuildingConfig(b.name), b.level, b.construction_start_ts, new_timestamp)
         IN  AdvanceBuildings(
                 IF done
                 THEN [acc EXCEPT !.db = updateBuildingLevel(acc.db, id, b.level + 1),
                                  !.completed_trainings =
                                      Append(@, [name |-> b.name, generation |-> 0, level |-> b.level + 1])]
                 ELSE acc,
                 ids \ {id}, new_timestamp)

\* Second loop: the same for walls, with the hp of the new level.
RECURSIVE AdvanceWalls(_, _, _)
AdvanceWalls(acc, ids, new_timestamp) ==
    IF ids = {} THEN acc
    ELSE LET id == MinId(ids)
             w == WallRow(acc.db, id)
             done == /\ hasWallConfig(w.generation)
                     /\ Completes(getWallConfigByGeneration(w.generation), w.level,
                                  w.construction_start_ts, new_timestamp)
         IN  AdvanceWalls(
                 IF done
                 THEN [acc EXCEPT !.db = updateWallLevel(acc.db, id, w.level + 1,
                                                         getWallHP(w.generation, w.level + 1)),
                                  !.completed_trainings =
                                      Append(@, [name |-> "wall_gen", generation |-> w.generation,
                                                 level |-> w.level + 1])]
                 ELSE acc,
                 ids \ {id}, new_timestamp)

RECURSIVE Pow(_, _)
Pow(m, n) == IF n <= 0 THEN 1 ELSE m * Pow(m, n - 1)

\* amount * n, or the geometric sum amount * (m^n - 1) / (m - 1).
TotalAmount(production, full_cycles) ==
    IF production.amount_multiplier = 1
    THEN production.amount * full_cycles
    ELSE (production.amount * (Pow(production.amount_multiplier, full_cycles) - 1))
             \div (production.amount_multiplier - 1)

\* The resources of one building that yield at least one full cycle, in
\* the order the loop visits them.
ProducingFields(config, elapsed_seconds) ==
    SelectSeq(ProductionFields,
              LAMBDA r : /\ r \in DOMAIN config
                         /\ elapsed_seconds \div config[r].periodicity_seconds > 0)

\* Third loop: every operational building writes old_value + total_amount,
\* where old_value is the balance the fiefdom row had when the batch read
\* it (snapshot), not the balance an earlier building of the loop wrote.
RECURSIVE AdvanceProduction(_, _, _, _, _)
AdvanceProduction(acc, fiefdom_id, snapshot, ids, elapsed_seconds) ==
    IF ids = {} THEN acc
    ELSE LET id == MinId(ids)
             b == BuildingRow(acc.db, id)
             config == getBuildingConfig(b.name)
             fields == IF b.level <= 0 \/ ~buildingTypeExists(b.name)
                       THEN <<>>
                       ELSE ProducingFields(config, elapsed_seconds)
             total(r) == TotalAmount(config[r], elapsed_seconds \div config[r].periodicity_seconds)
             updates == [i \in 1..Len(fields) |->
                            [resource_type |-> fields[i], amount_produced |-> total(fields[i]),
                             source_type |-> "building", source_id |-> id,
                             fiefdom_id |-> fiefdom_id]]
         IN  AdvanceProduction(
                 [acc EXCEPT !.db.fiefdoms[fiefdom_id] =
                                 [k \in DOMAIN @ |->
                                     IF k \in Range(fields) THEN snapshot[k] + total(k) ELSE @[k]],
                             !.productions = @ \o updates],
                 fiefdom_id, snapshot, ids \ {id}, elapsed_seconds)

\* One fiefdom of the batch: the three loops, then last_update_time.
AdvanceFiefdom(acc, fiefdom_id, snapshot, new_timestamp, elapsed_seconds) ==
    LET ids == {b.id : b \in BuildingsOf(acc.db, fiefdom_id)}
        a1 == AdvanceBuildings(acc, ids, new_timestamp)
        a2 == AdvanceWalls(a1, {w.id : w \in WallsOf(acc.db, fiefdom_id)}, new_timestamp)
        a3 == AdvanceProduction(a2, fiefdom_id, snapshot, ids, elapsed_seconds)
    IN  [a3 EXCEPT !.db.fiefdoms[fiefdom_id].last_update_time = new_timestamp,
                   !.fiefdoms_updated = @ + 1]

RECURSIVE AdvanceBatch(_, _, _, _, _)
AdvanceBatch(acc, snapshots, fiefdom_ids, new_timestamp, elapsed_seconds) ==
    IF fiefdom_ids = {} THEN acc
    ELSE LET f == MinId(fiefdom_ids)
         IN  AdvanceBatch(AdvanceFiefdom(acc, f, snapshots[f], new_timestamp, elapsed_seconds),
                          snapshots, fiefdom_ids \ {f}, new_timestamp, elapsed_seconds)

updateStateSince_AllFiefdoms(db, last_update_time, fiefdom_filter_id, now) ==
    LET empty == [db |-> db, new_timestamp |-> now, productions |-> <<>>,
                  completed_trainings |-> <<>>, fiefdoms_updated |-> 0]
    IN  IF ShortCircuit(now - last_update_time)
        THEN empty
        ELSE AdvanceBatch(empty, db.fiefdoms, DOMAIN db.fiefdoms, now, now - last_update_time)

\* fiefdom_filter_id = 0 stands for the empty filter (all fiefdoms).
updateStateSince(db, last_update_time, fiefdom_filter_id, now) ==
    LET empty == [db |-> db, new_timestamp |-> now, productions |-> <<>>,
                  completed_trainings |-> <<>>, fiefdoms_updated |-> 0]
        scope == IF fiefdom_filter_id = 0 THEN DOMAIN db.fiefdoms
                 ELSE DOMAIN db.fiefdoms \cap {fiefdom_filter_id}
    IN  IF ShortCircuit(now - last_update_time)
        THEN empty
        ELSE AdvanceBatch(empty, db.fiefdoms, scope, now, now - last_update_time)

(***************************************************************************)
(* The stub handlers and the registry.  The registry looks the handler up  *)
(* by its action type; calls lists the handler functions a registry call   *)
(* invoked, in order.                                                      *)
(***************************************************************************)
TrainTroopsActionHandler_validate(db, payload, ctx) ==
    IF "fiefdom_id" \notin DOMAIN payload \/ "combatant_type" \notin DOMAIN payload
    THEN Verdict("FAIL", "missing_fields")
    ELSE IF Mistyped(payload, "fiefdom_id") THEN Thrown
    ELSE IF ~userOwnsFiefdom(db, ctx, payload.fiefdom_id) THEN Verdict("FAIL", "not_owner")
    ELSE Verdict("OK", "")

TrainTroopsActionHandler_execute(db, payload, ctx, now, fault) ==
    Outcome("FAIL", "not_implemented", db, <<>>, <<>>)

ResearchMagicActionHandler_validate(db, payload, ctx) == Verdict("FAIL", "not_implemented")

ResearchMagicActionHandler_execute(db, payload, ctx, now, fault) ==
    Outcome("FAIL", "not_implemented", db, <<>>, <<>>)

ResearchTechActionHandler_validate(db, payload, ctx) == Verdict("FAIL", "not_implemented")

ResearchTechActionHandler_execute(db, payload, ctx, now, fault) ==
    Outcome("FAIL", "not_implemented", db, <<>>, <<>>)

\* The keys of handlers_ after registerAllActionHandlers.
RegisteredTypes ==
    {"build", "demolish", "move", "build_wall", "upgrade",
     "train_troops", "research_magic", "research_tech"}

WithCalls(out, calls) ==
    [status |-> out.status, error_code |-> out.error_code, db |-> out.db,
     side_effects |-> out.side_effects, result |-> out.result, calls |-> calls]

\* What validate_fn hands back through the registry: the verdict, and the
\* tables as they were.
ValidateFnResult(verdict, db) == Outcome(verdict.status, verdict.error_code, db, <<>>, <<>>)

ActionRegistry_validate(action_type, db, payload, ctx) ==
    IF action_type \notin RegisteredTypes
    THEN WithCalls(Outcome("FAIL", "unknown_action", db, <<>>, <<>>), <<>>)
    ELSE WithCalls(
             ValidateFnResult(
                 CASE action_type = "build" -> BuildActionHandler_validate(db, payload, ctx)
                   [] action_type = "demolish" -> DemolishActionHandler_validate(db, payload, ctx)
                   [] action_type = "move" -> MoveBuildingActionHandler_validate(db, payload, ctx)
                   [] action_type = "build_wall" -> BuildWallActionHandler_validate(db, payload, ctx)
                   [] action_type = "upgrade" -> UpgradeActionHandler_validate(db, payload, ctx)
                   [] action_type = "train_troops" -> TrainTroopsActionHandler_validate(db, payload, ctx)
                   [] action_type = "research_magic" -> ResearchMagicActionHandler_validate(db, payload, ctx)
                   [] action_type = "research_tech" -> ResearchTechActionHandler_validate(db, payload, ctx),
                 db),
             <<"validate_fn">>)

ActionRegistry_execute(action_type, db, payload, ctx, at, fault) ==
    IF action_type \notin RegisteredTypes
    THEN WithCalls(Outcome("FAIL", "unknown_action", db, <<>>, <<>>), <<>>)
    ELSE WithCalls(
             CASE action_type = "build" -> BuildActionHandler_execute(db, payload, ctx, at, fault)
               [] action_type = "demolish" -> DemolishActionHandler_execute(db, payload, ctx, at, fault)
               [] action_type = "move" -> MoveBuildingActionHandler_execute(db, payload, ctx, at, fault)
               [] action_type = "build_wall" -> BuildWallActionHandler_execute(db, payload, ctx, at, fault)
               [] action_type = "upgrade" -> UpgradeActionHandler_execute(db, payload, ctx, at, fault)
               [] action_type = "train_troops" -> TrainTroopsActionHandler_execute(db, payload, ctx, at, fault)
               [] action_type = "research_magic" -> ResearchMagicActionHandler_execute(db, payload, ctx, at, fault)
               [] action_type = "research_tech" -> ResearchTechActionHandler_execute(db, payload, ctx, at, fault),
             <<"execute_fn">>)

\* The early return of validateAndExecute: execute_result is computed only
\* when validate_result is OK.
ReturnUnlessOK(validate_result, execute_result) ==
    IF validate_result.status # "OK"
    THEN validate_result
    ELSE WithCalls(execute_result, validate_result.calls \o execute_result.calls)

ActionRegistry_validateAndExecute_ExecuteOnly(action_type, db, payload, ctx, at, fault) ==
    ActionRegistry_execute(action_type, db, payload, ctx, at, fault)

ActionRegistry_validateAndExecute(action_type, db, payload, ctx, at, fault) ==
    ReturnUnlessOK(ActionRegistry_validate(action_type, db, payload, ctx),
                   ActionRegistry_execute(action_type, db, payload, ctx, at, fault))

(***************************************************************************)
(* Morale aggregation (namespace Morale).  The C++ doubles are integers    *)
(* here: every boost of the catalogues the model runs with is integral     *)
(* and every total stays far below the range of a double.  config is the   *)
(* catalogue the function reads: the building types and wall generations   *)
(* of GameConfigCache and the official, hero and combatant registries.     *)
(***************************************************************************)
parseMode(mode_str) ==
    IF mode_str = "add" THEN "Add"
    ELSE IF mode_str = "max" THEN "Max"
    ELSE IF mode_str = "multiply" THEN "Multiply"
    ELSE "Add"

clampMorale_UpperOnly(value) ==
    IF value > 1000 THEN 1000 ELSE value

clampMorale(value) ==
    IF value < -1000 THEN -1000
    ELSE IF value > 1000 THEN 1000
    ELSE value

calculateBuildingMorale(building_name, building_count, building_config) ==
    IF "morale_boost" \notin DOMAIN building_config \/ building_count = 0
    THEN 0
    ELSE LET boost == building_config.morale_boost
             mode == parseMode(IF "morale_effect_mode" \in DOMAIN building_config
                               THEN building_config.morale_effect_mode ELSE "add")
         IN  CASE mode = "Add" -> boost * building_count
               [] mode = "Max" -> boost
               [] mode = "Multiply" -> Pow(boost, building_count)

RECURSIVE SumOf(_)
SumOf(terms) == IF terms = <<>> THEN 0 ELSE Head(terms) + SumOf(Tail(terms))

\* morale_boost[min(level - 1, size - 1)] when that index is >= 0.
BoostAtLevel(morale_boost, level) ==
    LET idx == Min(level - 1, Len(morale_boost) - 1)
    IN  IF idx >= 0 THEN morale_boost[idx + 1] ELSE 0

calculateWallMorale(config, walls) ==
    SumOf([i \in 1..Len(walls) |->
              IF walls[i].level <= 0 THEN 0
              ELSE IF walls[i].generation \notin DOMAIN config.walls THEN 0
              ELSE IF "morale_boost" \notin DOMAIN config.walls[walls[i].generation] THEN 0
              ELSE BoostAtLevel(config.walls[walls[i].generation].morale_boost, walls[i].level)])

\* One loop of calculateFiefdomMorale over officials, heroes or combatants:
\* registry is the registry of the kind, units[i].config_id the template.
RegistryMorale(registry, units) ==
    SumOf([i \in 1..Len(units) |->
              IF /\ units[i].config_id \in DOMAIN registry
                 /\ registry[units[i].config_id].morale_boost # <<>>
                 /\ units[i].level > 0
              THEN BoostAtLevel(registry[units[i].config_id].morale_boost, units[i].level)
              ELSE 0])

\* building_counts[building.name]++ over the buildings, whatever their
\* level, then one term per name.
BuildingCount(buildings, name) ==
    Cardinality({i \in 1..Len(buildings) : buildings[i].name = name})

BuildingsMorale(config, buildings) ==
    SumOf([i \in 1..Len(buildings) |->
              IF \E j \in 1..(i - 1) : buildings[j].name = buildings[i].name THEN 0
              ELSE IF buildings[i].name \notin DOMAIN config.building_types THEN 0
              ELSE calculateBuildingMorale(buildings[i].name,
                                           BuildingCount(buildings, buildings[i].name),
                                           config.building_types[buildings[i].name])])

\* total_morale just before the return statement.
TotalMorale(config, buildings, walls, officials, heroes, combatants) ==
    BuildingsMorale(config, buildings)
        + calculateWallMorale(config, walls)
        + RegistryMorale(config.officials, officials)
        + RegistryMorale(config.heroes, heroes)
        + RegistryMorale(config.combatants, combatants)

calculateFiefdomMorale(config, buildings, walls, officials, heroes, combatants) ==
    clampMorale(TotalMorale(config, buildings, walls, officials, heroes, combatants))

(***************************************************************************)
(* State.  The three tables and the AUTOINCREMENT counters are the         *)
(* persisted state; now is the wall clock; pc is the position of the       *)
(* single-threaded dispatcher; request and result are the call in hand     *)
(* and what it returned; pre is the persisted state the call started from. *)
(* conn is the transaction state of the one sqlite::database handle every  *)
(* invocation shares, and inflight the invocations that run in parallel,   *)
(* each with its position and locals; the dispatcher's own calls run to    *)
(* completion and leave both alone.                                        *)
(***************************************************************************)
VARIABLES fiefdoms, fiefdom_buildings, fiefdom_walls, sqlite_sequence,
          now, pc, request, result, pre, conn, inflight

vars == <<fiefdoms, fiefdom_buildings, fiefdom_walls, sqlite_sequence,
          now, pc, request, result, pre, conn, inflight, loaded_>>

DB == [fiefdoms |-> fiefdoms, fiefdom_buildings |-> fiefdom_buildings,
       fiefdom_walls |-> fiefdom_walls, sqlite_sequence |-> sqlite_sequence]

NoRequest == [op |-> "none"]
NoResult == [status |-> "none"]
NoPrevious == [last_update_time |-> -1, new_timestamp |-> -1]
NoTransaction == [in_tx |-> FALSE, journal |-> <<>>]

\* Character 1 starts with an empty fiefdom 1; fiefdom 2 of character 2
\* already has its completed home base and a storehouse east of it.  The
\* clock starts late enough for an advance from last_update_time = 0 to
\* pass the short-circuit.
InitialBuildings ==
    {[id |-> 1, fiefdom_id |-> 2, name |-> "home_base", level |-> 1,
      x |-> 0, y |-> 0, construction_start_ts |-> 0],
     [id |-> 2, fiefdom_id |-> 2, name |-> "storehouse", level |-> 1,
      x |-> 2, y |-> 0, construction_start_ts |-> 0]}

Init ==
    /\ fiefdoms = [f \in FiefdomIds |-> InitialFiefdomRow(f)]
    /\ fiefdom_buildings = InitialBuildings
    /\ fiefdom_walls = {}
    /\ sqlite_sequence = [fiefdom_buildings |-> Cardinality(InitialBuildings), fiefdom_walls |-> 0]
    /\ now = 4
    /\ pc = "idle"
    /\ request = NoRequest
    /\ result = NoResult
    /\ pre = DB
    /\ conn = NoTransaction
    /\ loaded_ = TRUE
    /\ inflight = <<>>

(***************************************************************************)
(* Requests.  A body is the JSON body of the request; handleBuild of       *)
(* main.cpp fills the context from it: requesting_character_id from        *)
(* "character_id" and requesting_fiefdom_id from "fiefdom_id" (0 when the  *)
(* body has none).  Requests are issued by character 1.                    *)
(***************************************************************************)
Positions == {<<0, 0>>, <<2, 0>>, <<-2, 1>>, <<1001, 0>>}
BuildingTypeNames == {"home_base", "farm", "castle"}
RequestingCharacters == {1}

Without(body, key) == [k \in DOMAIN body \ {key} |-> body[k]]

ContextOf(body) ==
    [requesting_character_id |-> body.character_id,
     requesting_fiefdom_id |-> IF "fiefdom_id" \in DOMAIN body THEN body.fiefdom_id ELSE 0]

BuildBodies ==
    LET own == {[character_id |-> c, fiefdom_id |-> 1, building_type |-> t, x |-> p[1], y |-> p[2]] :
                    c \in RequestingCharacters, t \in BuildingTypeNames, p \in Positions}
        other == {[character_id |-> c, fiefdom_id |-> 2, building_type |-> t, x |-> 2, y |-> 0] :
                    c \in RequestingCharacters, t \in BuildingTypeNames}
        one == [character_id |-> 1, fiefdom_id |-> 1, building_type |-> "farm", x |-> 2, y |-> 0]
    IN  own \cup other
            \cup {Without(one, "fiefdom_id"), Without(one, "building_type"), Without(one, "x")}
            \cup {[character_id |-> 1, fiefdom_id |-> 1, building_type |-> "home_base",
                   x |-> 0, y |-> 0, mistyped |-> {"x"}]}

\* The ids a request can name: every id handed out so far and the next one.
TargetBuildingIds == 1..(sqlite_sequence.fiefdom_buildings + 1)
TargetWallIds == 1..(sqlite_sequence.fiefdom_walls + 1)

DemolishBodies ==
    {[character_id |-> c, fiefdom_id |-> f, building_id |-> b] :
        c \in RequestingCharacters, f \in FiefdomIds, b \in TargetBuildingIds}
    \cup {[character_id |-> 1, building_id |-> b] : b \in TargetBuildingIds}
    \cup {[character_id |-> 1, fiefdom_id |-> 1],
          [character_id |-> 1, fiefdom_id |-> 1, building_id |-> 0, mistyped |-> {"building_id"}]}

MoveBodies ==
    LET full == {[character_id |-> c, fiefdom_id |-> 1, building_id |-> b, x |-> p[1], y |-> p[2]] :
                    c \in RequestingCharacters, b \in TargetBuildingIds,
                    p \in {q \in Positions : isValidPosition(q[1], q[2])}}
    IN  full \cup {Without(body, "fiefdom_id") : body \in full}
             \cup {[character_id |-> 1, fiefdom_id |-> 2, building_id |-> b, x |-> 2, y |-> 0] :
                      b \in TargetBuildingIds}
             \cup {[character_id |-> 1, fiefdom_id |-> 1, building_id |-> b, x |-> 1001, y |-> 0] :
                      b \in TargetBuildingIds}
             \cup {[character_id |-> 1, fiefdom_id |-> 1, building_id |-> 1, y |-> 0],
                   [character_id |-> 1, fiefdom_id |-> 1, x |-> 0, y |-> 0],
                   [character_id |-> 1, fiefdom_id |-> 1, building_id |-> 0, x |-> 0, y |-> 0,
                    mistyped |-> {"building_id"}]}

UpgradeBodies ==
    LET both == {[character_id |-> c, fiefdom_id |-> 1, building_id |-> b, wall_id |-> w] :
                    c \in RequestingCharacters, b \in TargetBuildingIds, w \in TargetWallIds}
    IN  both \cup {Without(body, "wall_id") : body \in both}
             \cup {Without(body, "building_id") : body \in both}
             \cup {[character_id |-> 1, fiefdom_id |-> 2, building_id |-> 1],
                   [character_id |-> 1, fiefdom_id |-> 2, wall_id |-> 1],
                   [character_id |-> 1, fiefdom_id |-> 1], [character_id |-> 1, building_id |-> 1],
                   [character_id |-> 1, fiefdom_id |-> 1, building_id |-> 0,
                    mistyped |-> {"building_id"}],
                   [character_id |-> 1, fiefdom_id |-> 1, wall_id |-> 0, mistyped |-> {"wall_id"}]}

WallGenerations == {1, 2, 3}

BuildWallBodies ==
    {[character_id |-> c, fiefdom_id |-> f, wall_generation |-> g] :
        c \in RequestingCharacters, f \in FiefdomIds, g \in WallGenerations}
    \cup {[character_id |-> 1, fiefdom_id |-> 1], [character_id |-> 1, wall_generation |-> 1],
          [character_id |-> 1, fiefdom_id |-> 1, wall_generation |-> 0,
           mistyped |-> {"wall_generation"}]}

(***************************************************************************)
(* Actions.                                                                *)
(***************************************************************************)
BalancesInBounds(db) ==
    \A f \in DOMAIN db.fiefdoms : \A r \in ResourceSet :
        db.fiefdoms[f][r] >= 0 - MaxDebt /\ db.fiefdoms[f][r] <= MaxBalance

\* The call returns: the tables become what the call left behind.
Respond(op, body, fault, out) ==
    /\ fault = "none" \/ out.status = "OK" \/ out.error_code = "database_error"
    /\ BalancesInBounds(out.db)
    /\ out.db.sqlite_sequence.fiefdom_buildings <= Cardinality(InitialBuildings) + MaxBuildingRows
    /\ fiefdoms' = out.db.fiefdoms
    /\ fiefdom_buildings' = out.db.fiefdom_buildings
    /\ fiefdom_walls' = out.db.fiefdom_walls
    /\ sqlite_sequence' = out.db.sqlite_sequence
    /\ request' = [op |-> op, entry |-> "execute", payload |-> body, ctx |-> ContextOf(body),
                   fault |-> fault]
    /\ result' = [status |-> out.status, error_code |-> out.error_code,
                  side_effects |-> out.side_effects, result |-> out.result,
                  action_timestamp |-> now]
    /\ pre' = DB
    /\ pc' = "responded"
    /\ now' = now
    /\ UNCHANGED <<conn, inflight, loaded_>>

Build ==
    /\ pc = "idle"
    /\ \E body \in BuildBodies, fault \in Faults :
           Respond("build", body, fault,
                   BuildActionHandler_execute(DB, body, ContextOf(body), now, fault))

Demolish ==
    /\ pc = "idle"
    /\ \E body \in DemolishBodies, fault \in Faults :
           Respond("demolish", body, fault,
                   DemolishActionHandler_execute(DB, body, ContextOf(body), now, fault))

Move ==
    /\ pc = "idle"
    /\ \E body \in MoveBodies, fault \in Faults :
           Respond("move", body, fault,
                   MoveBuildingActionHandler_execute(DB, body, ContextOf(body), now, fault))

Upgrade ==
    /\ pc = "idle"
    /\ \E body \in UpgradeBodies, fault \in Faults :
           Respond("upgrade", body, fault,
                   UpgradeActionHandler_execute(DB, body, ContextOf(body), now, fault))

BuildWall ==
    /\ pc = "idle"
    /\ \E body \in BuildWallBodies, fault \in Faults :
           Respond("build_wall", body, fault,
                   BuildWallActionHandler_execute(DB, body, ContextOf(body), now, fault))

\* The requests made through ActionRegistry::validateAndExecute: a tag
\* nobody registered, the three stubs, and build_wall.
DispatchRequests ==
    {<<"fly", [character_id |-> 1, fiefdom_id |-> 1]>>,
     <<"train_troops", [character_id |-> 1, fiefdom_id |-> 1, combatant_type |-> "spearman"]>>,
     <<"train_troops", [character_id |-> 1, fiefdom_id |-> 2, combatant_type |-> "spearman"]>>,
     <<"train_troops", [character_id |-> 1, fiefdom_id |-> 1]>>,
     <<"research_magic", [character_id |-> 1, fiefdom_id |-> 1]>>,
     <<"research_tech", [character_id |-> 1, fiefdom_id |-> 1]>>}
    \cup {<<"build_wall", body>> : body \in BuildWallBodies}

RespondViaRegistry(op, body, fault, out) ==
    /\ fault = "none" \/ out.status = "OK" \/ out.error_code = "database_error"
    /\ BalancesInBounds(out.db)
    /\ fiefdoms' = out.db.fiefdoms
    /\ fiefdom_buildings' = out.db.fiefdom_buildings
    /\ fiefdom_walls' = out.db.fiefdom_walls
    /\ sqlite_sequence' = out.db.sqlite_sequence
    /\ request' = [op |-> op, entry |-> "validateAndExecute", payload |-> body,
                   ctx |-> ContextOf(body), fault |-> fault]
    /\ result' = [status |-> out.status, error_code |-> out.error_code,
                  side_effects |-> out.side_effects, result |-> out.result,
                  action_timestamp |-> now, calls |-> out.calls]
    /\ pre' = DB
    /\ pc' = "responded"
    /\ now' = now
    /\ UNCHANGED <<conn, inflight, loaded_>>

Dispatch ==
    /\ pc = "idle"
    /\ \E r \in DispatchRequests, fault \in Faults :
           RespondViaRegistry(r[1], r[2], fault,
               ActionRegistry_validateAndExecute(r[1], DB, r[2], ContextOf(r[2]), now, fault))

\* One call of updateStateSince at the clock value at.
AdvanceCall(last_update_time, fiefdom_filter_id, previous, at) ==
    LET out == updateStateSince(DB, last_update_time, fiefdom_filter_id, at)
    IN  /\ BalancesInBounds(out.db)
        /\ fiefdoms' = out.db.fiefdoms
        /\ fiefdom_buildings' = out.db.fiefdom_buildings
        /\ fiefdom_walls' = out.db.fiefdom_walls
        /\ sqlite_sequence' = out.db.sqlite_sequence
        /\ request' = [op |-> "advance", last_update_time |-> last_update_time,
                       fiefdom_filter_id |-> fiefdom_filter_id, previous |-> previous]
        /\ result' = [status |-> "OK", new_timestamp |-> out.new_timestamp,
                      productions |-> out.productions,
                      completed_trainings |-> out.completed_trainings,
                      fiefdoms_updated |-> out.fiefdoms_updated]
        /\ pre' = DB
        /\ pc' = "responded"
        /\ now' = at
        /\ UNCHANGED <<conn, inflight, loaded_>>

Advance ==
    /\ pc = "idle"
    /\ \E last_update_time \in {0, fiefdoms[1].last_update_time}, fiefdom_filter_id \in {0, 1} :
           AdvanceCall(last_update_time, fiefdom_filter_id, NoPrevious, now)

\* The caller of advance calls it once more right away, with the same
\* argument or with the new_timestamp it got back.
AdvanceAgain ==
    /\ pc = "responded"
    /\ request.op = "advance"
    /\ request.previous = NoPrevious
    /\ \E delay \in 0..ImmediateDelay,
          last_update_time \in {request.last_update_time, result.new_timestamp} :
           /\ now + delay <= MaxNow
           /\ AdvanceCall(last_update_time, request.fiefdom_filter_id,
                          [last_update_time |-> request.last_update_time,
                           new_timestamp |-> result.new_timestamp],
                          now + delay)

\* The dispatcher hands the result back and waits for the next request.
Return ==
    /\ pc = "responded"
    /\ pc' = "idle"
    /\ request' = NoRequest
    /\ result' = NoResult
    /\ pre' = DB
    /\ UNCHANGED <<fiefdoms, fiefdom_buildings, fiefdom_walls, sqlite_sequence, now,
                   conn, inflight, loaded_>>

Tick ==
    /\ pc = "idle"
    /\ now < MaxNow
    /\ now' = now + 1
    /\ UNCHANGED <<fiefdoms, fiefdom_buildings, fiefdom_walls, sqlite_sequence,
                   pc, request, result, pre, conn, inflight, loaded_>>

Next ==
    \/ Build
    \/ Demolish
    \/ Move
    \/ Upgrade
    \/ BuildWall
    \/ Dispatch
    \/ Advance
    \/ AdvanceAgain
    \/ Return
    \/ Tick

Spec == Init /\ [][Next]_vars

(***************************************************************************)
(* The morale aggregator on its own: the snapshots and catalogues it is    *)
(* called with, and the call.  The request in hand is the input, the       *)
(* result the value calculateFiefdomMorale returns.                        *)
(***************************************************************************)
Scaled(morale_boost, sign) == [i \in DOMAIN morale_boost |-> sign * morale_boost[i]]

\* One building type with a boost, in each effect mode (and one mode the
\* parser does not know); every array of the registries in either sign.
MoraleConfigs ==
    {[building_types |-> [farm |-> [morale_boost |-> boost, morale_effect_mode |-> mode],
                          mill |-> [width |-> 1]],
      walls |-> [g \in {1} |-> [morale_boost |-> Scaled(<<400, -500>>, sign)]],
      officials |-> [steward |-> [morale_boost |-> Scaled(<<-300, 600>>, sign)]],
      heroes |-> [knight |-> [morale_boost |-> Scaled(<<800>>, sign)],
                  squire |-> [morale_boost |-> <<>>]],
      combatants |-> [spearman |-> [morale_boost |-> Scaled(<<-900, 900>>, sign)]]] :
        boost \in {-700, 3, 900}, mode \in {"add", "max", "multiply", "average"},
        sign \in {1, -1}}

SeqsUpTo(S, n) == UNION {[1..k -> S] : k \in 0..n}

MoraleSnapshots ==
    [buildings : SeqsUpTo({[name |-> "farm", level |-> 0], [name |-> "farm", level |-> 1],
                           [name |-> "ruin", level |-> 1]}, MaxMoraleRows),
     walls : {<<>>, <<[generation |-> 1, level |-> 0]>>,
              <<[generation |-> 1, level |-> 3], [generation |-> 2, level |-> 1]>>},
     officials : {<<>>, <<[config_id |-> "steward", level |-> 1]>>,
                  <<[config_id |-> "steward", level |-> 3]>>,
                  <<[config_id |-> "ghost", level |-> 1], [config_id |-> "steward", level |-> 0]>>},
     heroes : {<<>>, <<[config_id |-> "knight", level |-> 2], [config_id |-> "squire", level |-> 1]>>},
     combatants : {<<>>, <<[config_id |-> "spearman", level |-> 1]>>,
                   <<[config_id |-> "spearman", level |-> 2], [config_id |-> "spearman", level |-> 2]>>}]

MoraleInit ==
    /\ fiefdoms = [f \in FiefdomIds |-> InitialFiefdomRow(f)]
    /\ fiefdom_buildings = InitialBuildings
    /\ fiefdom_walls = {}
    /\ sqlite_sequence = [fiefdom_buildings |-> Cardinality(InitialBuildings), fiefdom_walls |-> 0]
    /\ now = 4
    /\ pc = "idle"
    /\ \E config \in MoraleConfigs, snapshot \in MoraleSnapshots :
           request = [op |-> "morale", config |-> config, snapshot |-> snapshot]
    /\ result = NoResult
    /\ pre = DB
    /\ conn = NoTransaction
    /\ loaded_ = TRUE
    /\ inflight = <<>>

CalculateMorale ==
    /\ pc = "idle"
    /\ request.op = "morale"
    /\ result' = [status |-> "OK",
                  morale |-> calculateFiefdomMorale(request.config, request.snapshot.buildings,
                                                    request.snapshot.walls, request.snapshot.officials,
                                                    request.snapshot.heroes, request.snapshot.combatants)]
    /\ pc' = "responded"
    /\ UNCHANGED <<fiefdoms, fiefdom_buildings, fiefdom_walls, sqlite_sequence, now, request, pre,
                   conn, inflight, loaded_>>

MoraleNext == CalculateMorale

MoraleSpec == MoraleInit /\ [][MoraleNext]_vars

(***************************************************************************)
(* Invocations in parallel.  Two invocations (a build or an advance each)  *)
(* run at the same time and interleave statement by statement on the one   *)
(* handle Database::getInstance().gameDB() returns.  The tables are what   *)
(* the handle sees, uncommitted writes included.  A handle has one         *)
(* transaction: BEGIN inside a transaction, and COMMIT or ROLLBACK outside *)
(* one, fail and throw; ROLLBACK restores the tables of the BEGIN whoever  *)
(* issued it; a statement outside a transaction is committed at once.      *)
(* The reads of validate are one step, and so are the statements of one    *)
(* fiefdom in advance.                                                     *)
(***************************************************************************)
Invocations == {1, 2}

ParallelInitialBuildings ==
    InitialBuildings \cup
        {[id |-> 3, fiefdom_id |-> 2, name |-> "farm", level |-> 1,
          x |-> 0, y |-> 3, construction_start_ts |-> 0]}

ParallelBuildBodies ==
    {[character_id |-> 1, fiefdom_id |-> 1, building_type |-> "home_base", x |-> 0, y |-> 0],
     [character_id |-> 2, fiefdom_id |-> 2, building_type |-> "farm", x |-> 0, y |-> 2],
     [character_id |-> 2, fiefdom_id |-> 2, building_type |-> "farm", x |-> 1, y |-> 2],
     [character_id |-> 2, fiefdom_id |-> 2, building_type |-> "farm", x |-> 2, y |-> 0]}

\* An invocation that has not run a statement yet.
NewCall ==
    [op |-> "none", payload |-> <<>>, ctx |-> <<>>, last_update_time |-> 0,
     fiefdom_filter_id |-> 0, at |-> "start", bal |-> <<>>, side_effects |-> <<>>,
     snapshot |-> <<>>, todo |-> {}, productions |-> <<>>, completed_trainings |-> <<>>,
     fiefdoms_updated |-> 0, status |-> "none", error_code |-> "", result |-> <<>>]

ParallelCalls ==
    {[NewCall EXCEPT !.op = "build", !.payload = body, !.ctx = ContextOf(body)] :
        body \in ParallelBuildBodies}
    \cup {[NewCall EXCEPT !.op = "advance", !.fiefdom_filter_id = f] : f \in {0, 1, 2}}

ParallelInit ==
    /\ fiefdoms = [f \in FiefdomIds |-> InitialFiefdomRow(f)]
    /\ fiefdom_buildings = ParallelInitialBuildings
    /\ fiefdom_walls = {}
    /\ sqlite_sequence = [fiefdom_buildings |-> Cardinality(ParallelInitialBuildings),
                          fiefdom_walls |-> 0]
    /\ now = 4
    /\ pc = "parallel"
    /\ request = NoRequest
    /\ result = NoResult
    /\ pre = DB
    /\ conn = NoTransaction
    /\ loaded_ = TRUE
    /\ inflight \in [Invocations -> ParallelCalls]

SetTables(db) ==
    /\ fiefdoms' = db.fiefdoms
    /\ fiefdom_buildings' = db.fiefdom_buildings
    /\ fiefdom_walls' = db.fiefdom_walls
    /\ sqlite_sequence' = db.sqlite_sequence

SameTables == UNCHANGED <<fiefdoms, fiefdom_buildings, fiefdom_walls, sqlite_sequence>>

Goto(i, at) == inflight' = [inflight EXCEPT ![i].at = at]

Finish(i, status, error_code) ==
    inflight' = [inflight EXCEPT ![i].at = "done", ![i].status = status,
                                 ![i].error_code = error_code]

\* BuildActionHandler::execute up to its try block, and updateStateSince up
\* to its own: validate's reads, or the short-circuit test.
CallStart(i) ==
    /\ inflight[i].at = "start"
    /\ IF inflight[i].op = "build"
       THEN IF BuildActionHandler_validate(DB, inflight[i].payload, inflight[i].ctx).status # "OK"
            THEN Finish(i, "FAIL",
                        BuildActionHandler_validate(DB, inflight[i].payload, inflight[i].ctx).error_code)
            ELSE Goto(i, "begin")
       ELSE IF ShortCircuit(now - inflight[i].last_update_time)
            THEN Finish(i, "OK", "")
            ELSE Goto(i, "begin")
    /\ SameTables
    /\ UNCHANGED <<loaded_, now, pc, request, result, pre, conn>>

\* BEGIN TRANSACTION: of the TransactionGuard constructor, whose exception
\* build's handler catches before any guard exists, or of advance, whose
\* handler then issues ROLLBACK.
TxBegin(i) ==
    /\ inflight[i].at = "begin"
    /\ IF conn.in_tx
       THEN /\ IF inflight[i].op = "build"
               THEN Finish(i, "FAIL", "database_error")
               ELSE Goto(i, "catch")
            /\ conn' = conn
       ELSE /\ conn' = [in_tx |-> TRUE, journal |-> DB]
            /\ Goto(i, IF inflight[i].op = "build" THEN "deduct_read" ELSE "select")
    /\ SameTables
    /\ UNCHANGED <<loaded_, now, pc, request, result, pre>>

\* deductResources: the SELECT of the eight balances ...
BuildDeductRead(i) ==
    /\ inflight[i].at = "deduct_read"
    /\ inflight' = [inflight EXCEPT
           ![i].bal = ReadBalances(DB, inflight[i].payload.fiefdom_id),
           ![i].at = IF DOMAIN BuildCosts(getBuildingConfig(inflight[i].payload.building_type)) = {}
                     THEN "insert" ELSE "deduct_write"]
    /\ SameTables
    /\ UNCHANGED <<loaded_, now, pc, request, result, pre, conn>>

\* ... and the UPDATE that writes them back, less the costs.
DeductedBalances(bal, costs) ==
    [r \in ResourceSet |-> IF r \in DOMAIN costs THEN bal[r] - costs[r] ELSE bal[r]]

BuildDeductWrite(i) ==
    /\ inflight[i].at = "deduct_write"
    /\ SetTables(WriteBalances(DB, inflight[i].payload.fiefdom_id,
                               DeductedBalances(inflight[i].bal,
                                   BuildCosts(getBuildingConfig(inflight[i].payload.building_type)))))
    /\ Goto(i, "insert")
    /\ UNCHANGED <<loaded_, now, pc, request, result, pre, conn>>

BuildInsert(i) ==
    /\ inflight[i].at = "insert"
    /\ SetTables(createBuilding(DB, inflight[i].payload.fiefdom_id,
                                inflight[i].payload.building_type, 0, now,
                                inflight[i].payload.x, inflight[i].payload.y))
    /\ Goto(i, "commit")
    /\ UNCHANGED <<loaded_, now, pc, request, result, pre, conn>>

\* The SELECT of the fiefdoms in scope.
AdvanceSelect(i) ==
    /\ inflight[i].at = "select"
    /\ inflight' = [inflight EXCEPT
           ![i].snapshot = fiefdoms,
           ![i].todo = IF inflight[i].fiefdom_filter_id = 0 THEN DOMAIN fiefdoms
                       ELSE DOMAIN fiefdoms \cap {inflight[i].fiefdom_filter_id},
           ![i].at = "fiefdom"]
    /\ SameTables
    /\ UNCHANGED <<loaded_, now, pc, request, result, pre, conn>>

\* One turn of the loop over the fiefdoms, or its end.
AdvancedFiefdom(i) ==
    AdvanceFiefdom([db |-> DB, new_timestamp |-> now, productions |-> inflight[i].productions,
                    completed_trainings |-> inflight[i].completed_trainings,
                    fiefdoms_updated |-> inflight[i].fiefdoms_updated],
                   MinId(inflight[i].todo), inflight[i].snapshot[MinId(inflight[i].todo)],
                   now, now - inflight[i].last_update_time)

AdvanceOneFiefdom(i) ==
    /\ inflight[i].at = "fiefdom"
    /\ IF inflight[i].todo = {}
       THEN /\ Goto(i, "commit")
            /\ SameTables
       ELSE /\ SetTables(AdvancedFiefdom(i).db)
            /\ inflight' = [inflight EXCEPT
                   ![i].todo = @ \ {MinId(inflight[i].todo)},
                   ![i].productions = AdvancedFiefdom(i).productions,
                   ![i].completed_trainings = AdvancedFiefdom(i).completed_trainings,
                   ![i].fiefdoms_updated = AdvancedFiefdom(i).fiefdoms_updated]
    /\ UNCHANGED <<loaded_, now, pc, request, result, pre, conn>>

\* COMMIT: of tx.commit(), or of advance.  Outside a transaction it throws:
\* build unwinds through the guard's destructor, advance enters its handler.
TxCommit(i) ==
    /\ inflight[i].at = "commit"
    /\ IF conn.in_tx
       THEN /\ conn' = NoTransaction
            /\ Finish(i, "OK", "")
       ELSE /\ conn' = conn
            /\ Goto(i, IF inflight[i].op = "build" THEN "unwind" ELSE "catch")
    /\ SameTables
    /\ UNCHANGED <<loaded_, now, pc, request, result, pre>>

\* ROLLBACK: of ~TransactionGuard while build's exception unwinds, or of
\* advance's catch block.  Outside a transaction it throws as well: out of
\* a destructor, which ends the process (std::terminate), or out of the
\* catch block, which leaves updateStateSince by exception.
TxRollback(i) ==
    /\ inflight[i].at \in {"unwind", "catch"}
    /\ IF conn.in_tx
       THEN /\ SetTables(conn.journal)
            /\ conn' = NoTransaction
            /\ IF inflight[i].op = "build"
               THEN Finish(i, "FAIL", "database_error")
               ELSE Finish(i, "ROLLED_BACK", "")
       ELSE /\ SameTables
            /\ conn' = conn
            /\ IF inflight[i].op = "build"
               THEN Finish(i, "TERMINATED", "")
               ELSE Finish(i, "THROWN", "sqlite_exception")
    /\ UNCHANGED <<loaded_, now, pc, request, result, pre>>

ParallelNext ==
    \E i \in Invocations :
        \/ CallStart(i)
        \/ TxBegin(i)
        \/ BuildDeductRead(i)
        \/ BuildDeductWrite(i)
        \/ BuildInsert(i)
        \/ AdvanceSelect(i)
        \/ AdvanceOneFiefdom(i)
        \/ TxCommit(i)
        \/ TxRollback(i)

ParallelSpec == ParallelInit /\ [][ParallelNext]_vars

(***************************************************************************)
(* The time advance on its own.  The store holds fiefdoms that earlier     *)
(* builds and upgrades left behind: in fiefdom 1 a completed home base, a  *)
(* tower at any stage of its life and up to two farms; fiefdom 2 as        *)
(* before.  updateStateSince runs on it, with or without a statement that  *)
(* throws inside its try block.                                            *)
(***************************************************************************)
NoFailure == 0

\* try { BEGIN; ...; COMMIT } catch { ROLLBACK } return result: when the
\* UPDATE of last_update_time of failing_fiefdom throws, the tables go back
\* to their state at BEGIN, and result keeps what the loops pushed into it
\* up to the throw; fiefdoms_updated++ of the failing fiefdom is not reached.
updateStateSince_catch(db, last_update_time, fiefdom_filter_id, at, failing_fiefdom) ==
    LET empty == [db |-> db, new_timestamp |-> at, productions |-> <<>>,
                  completed_trainings |-> <<>>, fiefdoms_updated |-> 0]
        scope == IF fiefdom_filter_id = 0 THEN DOMAIN db.fiefdoms
                 ELSE DOMAIN db.fiefdoms \cap {fiefdom_filter_id}
        reached == {f \in scope : f <= failing_fiefdom}
        partial == AdvanceBatch(empty, db.fiefdoms, reached, at, at - last_update_time)
    IN  IF ShortCircuit(at - last_update_time) \/ failing_fiefdom \notin scope
        THEN [rolled_back |-> FALSE] @@ updateStateSince(db, last_update_time, fiefdom_filter_id, at)
        ELSE [rolled_back |-> TRUE, db |-> db, new_timestamp |-> at,
              productions |-> partial.productions,
              completed_trainings |-> partial.completed_trainings,
              fiefdoms_updated |-> partial.fiefdoms_updated - 1]

\* The stages of a tower's life: under construction since second 1..4,
\* idle at a level, or with a pending upgrade.
TowerStages ==
    {[level |-> 0, construction_start_ts |-> t] : t \in 1..4}
        \cup {[level |-> k, construction_start_ts |-> t] : k \in 1..3, t \in 0..4}
        \cup {[level |-> 4, construction_start_ts |-> 0]}

FarmStages ==
    {[level |-> 0, construction_start_ts |-> 4], [level |-> 1, construction_start_ts |-> 0],
     [level |-> 1, construction_start_ts |-> 3]}

AdvanceInitialBuildings(tower, farms) ==
    InitialBuildings
        \cup {[id |-> 3, fiefdom_id |-> 1, name |-> "home_base", level |-> 1,
               x |-> 0, y |-> 0, construction_start_ts |-> 0],
              [id |-> 4, fiefdom_id |-> 1, name |-> "tower", level |-> tower.level,
               x |-> 2, y |-> 0, construction_start_ts |-> tower.construction_start_ts]}
        \cup {[id |-> 4 + i, fiefdom_id |-> 1, name |-> "farm", level |-> farms[i].level,
               x |-> 0, y |-> 1 + i, construction_start_ts |-> farms[i].construction_start_ts]
                  : i \in DOMAIN farms}

\* Fiefdom 2 with no wall, or with the wall build_wall made at second 3.
AdvanceInitialWalls ==
    {{}, {[id |-> 1, fiefdom_id |-> 2, generation |-> 1, level |-> 1, hp |-> 10,
           construction_start_ts |-> 3]}}

AdvanceInit ==
    /\ fiefdoms = [f \in FiefdomIds |-> InitialFiefdomRow(f)]
    /\ \E tower \in TowerStages,
          farms \in {<<>>} \cup {<<a>> : a \in FarmStages}
                           \cup {<<a, b>> : a \in FarmStages, b \in FarmStages},
          walls \in AdvanceInitialWalls :
           /\ fiefdom_buildings = AdvanceInitialBuildings(tower, farms)
           /\ fiefdom_walls = walls
           /\ sqlite_sequence = [fiefdom_buildings |-> 4 + Len(farms),
                                 fiefdom_walls |-> Cardinality(walls)]
    /\ now = 4
    /\ pc = "idle"
    /\ request = NoRequest
    /\ result = NoResult
    /\ pre = DB
    /\ conn = NoTransaction
    /\ loaded_ = TRUE
    /\ inflight = <<>>

TimeUpdateResultOf(out) ==
    [status |-> IF out.rolled_back THEN "ROLLED_BACK" ELSE "OK",
     new_timestamp |-> out.new_timestamp,
     productions |-> out.productions,
     completed_trainings |-> out.completed_trainings,
     fiefdoms_updated |-> out.fiefdoms_updated]

AdvanceWith(last_update_time, fiefdom_filter_id, failing_fiefdom, out) ==
    /\ BalancesInBounds(out.db)
    /\ fiefdoms' = out.db.fiefdoms
    /\ fiefdom_buildings' = out.db.fiefdom_buildings
    /\ fiefdom_walls' = out.db.fiefdom_walls
    /\ sqlite_sequence' = out.db.sqlite_sequence
    /\ request' = [op |-> "advance", last_update_time |-> last_update_time,
                   fiefdom_filter_id |-> fiefdom_filter_id, previous |-> NoPrevious,
                   failing_fiefdom |-> failing_fiefdom]
    /\ result' = TimeUpdateResultOf(out)
    /\ pre' = DB
    /\ pc' = "responded"
    /\ UNCHANGED <<now, conn, inflight, loaded_>>

\* One call of updateStateSince; the caller passes 0, the time of its last
\* call, or a time two seconds back.
AdvanceOrThrow ==
    /\ pc = "idle"
    /\ \E last_update_time \in {0, now - 2, fiefdoms[1].last_update_time},
          fiefdom_filter_id \in {0, 1, 2},
          failing_fiefdom \in {NoFailure} \cup FiefdomIds :
           AdvanceWith(last_update_time, fiefdom_filter_id, failing_fiefdom,
                       updateStateSince_catch(DB, last_update_time, fiefdom_filter_id, now,
                                              failing_fiefdom))

AdvanceNext ==
    \/ AdvanceOrThrow
    \/ Return
    \/ Tick

AdvanceSpec == AdvanceInit /\ [][AdvanceNext]_vars

(***************************************************************************)
(* The server after a startup whose configuration load failed:             *)
(* GameConfigCache::initialize returned false, main went on with a         *)
(* warning, and the requests that depend on the configuration arrive.      *)
(***************************************************************************)
ConfigInit ==
    /\ fiefdoms = [f \in FiefdomIds |-> InitialFiefdomRow(f)]
    /\ fiefdom_buildings = InitialBuildings
    /\ fiefdom_walls = {}
    /\ sqlite_sequence = [fiefdom_buildings |-> Cardinality(InitialBuildings), fiefdom_walls |-> 0]
    /\ now = 4
    /\ pc = "idle"
    /\ request = NoRequest
    /\ result = NoResult
    /\ pre = DB
    /\ conn = NoTransaction
    /\ loaded_ = FALSE
    /\ inflight = <<>>

ConfigNext ==
    \/ Build
    \/ Upgrade
    \/ BuildWall
    \/ Advance
    \/ Return
    \/ Tick

ConfigSpec == ConfigInit /\ [][ConfigNext]_vars

(***************************************************************************)
(* The life of a building: fiefdom 1 already has its completed home base,  *)
(* fiefdom 2 has spent some of its gold, and build, upgrade, move,         *)
(* demolish and advance interleave from there.                             *)
(***************************************************************************)
LifecycleFiefdomRow(owner) ==
    IF owner = 2 THEN [InitialFiefdomRow(owner) EXCEPT !.gold = 10]
    ELSE InitialFiefdomRow(owner)

LifecycleInitialBuildings ==
    InitialBuildings
        \cup {[id |-> 3, fiefdom_id |-> 1, name |-> "home_base", level |-> 1,
               x |-> 0, y |-> 0, construction_start_ts |-> 0]}

LifecycleInit ==
    /\ fiefdoms = [f \in FiefdomIds |-> LifecycleFiefdomRow(f)]
    /\ fiefdom_buildings = LifecycleInitialBuildings
    /\ fiefdom_walls = {}
    /\ sqlite_sequence = [fiefdom_buildings |-> Cardinality(LifecycleInitialBuildings),
                          fiefdom_walls |-> 0]
    /\ now = 4
    /\ pc = "idle"
    /\ request = NoRequest
    /\ result = NoResult
    /\ pre = DB
    /\ conn = NoTransaction
    /\ loaded_ = TRUE
    /\ inflight = <<>>

LifecycleNext ==
    \/ Build
    \/ Demolish
    \/ Move
    \/ Upgrade
    \/ Advance
    \/ Return
    \/ Tick

LifecycleSpec == LifecycleInit /\ [][LifecycleNext]_vars

(***************************************************************************)
(* Vocabulary of the properties.  These spell the conditions out over the  *)
(* tables themselves and do not go through the handlers' own helpers.      *)
(***************************************************************************)
ActionTypes == {"build", "demolish", "move", "upgrade", "build_wall"}
Responded(op) == pc = "responded" /\ request.op = op
ActionResponded == pc = "responded" /\ request.op \in ActionTypes
Succeeded(op) == Responded(op) /\ result.status = "OK"
\* The request carries the field, with a value of the type the handler reads.
Has(key) == key \in DOMAIN request.payload /\ ~Mistyped(request.payload, key)
Tables(db) == <<db.fiefdoms, db.fiefdom_buildings, db.fiefdom_walls>>
Unchanged == Tables(DB) = Tables(pre)
Balances(db) == [f \in DOMAIN db.fiefdoms |-> [r \in ResourceSet |-> db.fiefdoms[f][r]]]
BuildingLevels(db) == {<<b.id, b.level>> : b \in db.fiefdom_buildings}
WallLevels(db) == {<<w.id, w.level>> : w \in db.fiefdom_walls}

RequesterOwns(fiefdom_id) ==
    /\ fiefdom_id \in DOMAIN pre.fiefdoms
    /\ pre.fiefdoms[fiefdom_id].owner_id = request.ctx.requesting_character_id

HomeBaseBuilt(db, fiefdom_id) ==
    \E b \in db.fiefdom_buildings :
        b.fiefdom_id = fiefdom_id /\ b.name = "home_base" /\ b.level >= 1

\* The building a demolish or move request names, when it is a home base.
TargetIsHomeBase ==
    /\ Has("building_id")
    /\ \E b \in pre.fiefdom_buildings : b.id = request.payload.building_id /\ b.name = "home_base"

TargetOwned ==
    \E b \in pre.fiefdom_buildings :
        b.id = request.payload.building_id /\ RequesterOwns(b.fiefdom_id)

(***************************************************************************)
(* C1.  No negative resources: when build, demolish, move, upgrade or      *)
(* build_wall returns OK every balance of every fiefdom is >= 0, and a     *)
(* refusal for insufficient_resources leaves the persisted state as it     *)
(* was.                                                                    *)
(***************************************************************************)
C1_NoNegativeResources ==
    ActionResponded =>
        /\ result.status = "OK" =>
               \A f \in DOMAIN fiefdoms : \A r \in ResourceSet : fiefdoms[f][r] >= 0
        /\ result.status = "FAIL" /\ result.error_code = "insufficient_resources" => Unchanged

(***************************************************************************)
(* C2.  In every reachable state the footprints of two distinct buildings  *)
(* of one fiefdom do not overlap (strict AABB overlap).                    *)
(***************************************************************************)
C2_FootprintsDisjoint ==
    \A a, b \in fiefdom_buildings :
        a.id # b.id /\ a.fiefdom_id = b.fiefdom_id
            => ~(/\ a.x < b.x + FiefdomBuildingTypes[b.name].width
                 /\ a.x + FiefdomBuildingTypes[a.name].width > b.x
                 /\ a.y < b.y + FiefdomBuildingTypes[b.name].height
                 /\ a.y + FiefdomBuildingTypes[a.name].height > b.y)

(***************************************************************************)
(* C3.  All or nothing: a FAIL of build, demolish, move, upgrade or        *)
(* build_wall, whatever its reason, leaves the persisted state equal to    *)
(* the state before the call, and an OK has committed all the mutations    *)
(* of the call, that is the tables are the ones the call produces when     *)
(* every write of the store succeeds.                                      *)
(***************************************************************************)
C3_AllOrNothing ==
    ActionResponded =>
        /\ result.status = "FAIL" => Unchanged
        /\ result.status = "OK" =>
               Tables(DB) = Tables(ActionRegistry_execute(request.op, pre, request.payload,
                                                          request.ctx, now, "none").db)

(***************************************************************************)
(* C4.  Diff faithfulness: for an OK result, every from_value is the       *)
(* value held just before that mutation, and applying the side_effects in  *)
(* order to the state before the call yields the state after it, so that   *)
(* nothing the side_effects do not mention has changed.                    *)
(***************************************************************************)
RECURSIVE ApplySideEffects(_, _, _)
ApplySideEffects(db, side_effects, i) ==
    IF i > Len(side_effects) THEN db
    ELSE LET e == side_effects[i]
             hit == e.source_type = "fiefdom" /\ e.source_id \in DOMAIN db.fiefdoms
         IN  ApplySideEffects(
                 IF hit THEN [db EXCEPT !.fiefdoms[e.source_id][e.field] = e.to_value] ELSE db,
                 side_effects, i + 1)

RECURSIVE FromValuesHold(_, _, _)
FromValuesHold(db, side_effects, i) ==
    IF i > Len(side_effects) THEN TRUE
    ELSE LET e == side_effects[i]
         IN  /\ e.source_type = "fiefdom"
             /\ e.source_id \in DOMAIN db.fiefdoms
             /\ db.fiefdoms[e.source_id][e.field] = e.from_value
             /\ FromValuesHold([db EXCEPT !.fiefdoms[e.source_id][e.field] = e.to_value],
                               side_effects, i + 1)

C4_DiffFaithful ==
    ActionResponded /\ result.status = "OK" =>
        /\ FromValuesHold(pre, result.side_effects, 1)
        /\ Tables(ApplySideEffects(pre, result.side_effects, 1)) = Tables(DB)

(***************************************************************************)
(* C5.  Home base uniqueness and immutability: build(home_base) returns    *)
(* OK only when the fiefdom has no home_base of level >= 1; a demolish or  *)
(* move that names a home_base always returns FAIL and leaves every row    *)
(* and every balance as it was, and the code it returns is                 *)
(* home_base_immutable whenever the request gets past the checks that      *)
(* validate makes first (fields present, requester owns the building).     *)
(***************************************************************************)
C5_HomeBaseUniqueImmutable ==
    /\ Succeeded("build") /\ request.payload.building_type = "home_base"
           => ~HomeBaseBuilt(pre, request.payload.fiefdom_id)
    /\ (Responded("demolish") \/ Responded("move")) /\ TargetIsHomeBase
           => /\ result.status = "FAIL"
              /\ Unchanged
              /\ (TargetOwned /\ (Responded("move") => Has("x") /\ Has("y")))
                     => result.error_code = "home_base_immutable"

C5_Witness ==
    /\ Responded("move")
    /\ TargetIsHomeBase
    /\ TargetOwned
    /\ HomeBaseBuilt(pre, 1)
    /\ request.ctx.requesting_fiefdom_id = 1
    /\ result.error_code = "home_base_immutable"

(***************************************************************************)
(* C6.  Home base first: a build of a type other than home_base succeeds   *)
(* only in a fiefdom whose home_base has level >= 1; while the home_base   *)
(* is absent or at level 0 such a build, from the owner and for a type of  *)
(* the catalogue, returns FAIL home_base_required and inserts no row.      *)
(* The witness is the build that succeeds once advance has completed the   *)
(* home_base.                                                              *)
(***************************************************************************)
C6_HomeBaseFirst ==
    /\ Succeeded("build") /\ request.payload.building_type # "home_base"
           => HomeBaseBuilt(pre, request.payload.fiefdom_id)
    /\ (/\ Responded("build")
        /\ Has("fiefdom_id") /\ Has("building_type")
        /\ request.payload.building_type # "home_base"
        /\ ~HomeBaseBuilt(pre, request.payload.fiefdom_id))
           => /\ result.status = "FAIL"
              /\ Unchanged
              /\ (/\ RequesterOwns(request.payload.fiefdom_id)
                  /\ request.payload.building_type \in DOMAIN FiefdomBuildingTypes)
                     => result.error_code = "home_base_required"
    /\ \A b \in fiefdom_buildings : b.name # "home_base" => HomeBaseBuilt(DB, b.fiefdom_id)

C6_Witness ==
    /\ Succeeded("build")
    /\ request.payload.building_type = "farm"
    /\ \E b \in pre.fiefdom_buildings :
           /\ b.fiefdom_id = request.payload.fiefdom_id
           /\ b.name = "home_base"
           /\ b.level = 1
           /\ b.id > 1

(***************************************************************************)
(* C7.  Wall generation sequencing: build_wall(g) with g > 1 returns FAIL  *)
(* and creates no wall whenever the fiefdom has no wall of generation      *)
(* g - 1, with code generation_sequence_required when the request gets     *)
(* past the checks validate makes first (fields, ownership, a configured   *)
(* generation); hence every wall of generation g > 1 was created after a   *)
(* wall of generation g - 1 of the same fiefdom.                           *)
(***************************************************************************)
WallOfGeneration(db, fiefdom_id, generation) ==
    \E w \in db.fiefdom_walls : w.fiefdom_id = fiefdom_id /\ w.generation = generation

PerimeterEdges(generation) ==
    LET c == WallConfig.walls[generation]
        hw == c.width \div 2
        hl == c.length \div 2
    IN  {[x |-> 0 - hw, y |-> hl, width |-> c.width, height |-> c.thickness],
         [x |-> 0 - hw, y |-> 0 - hl - c.thickness, width |-> c.width, height |-> c.thickness],
         [x |-> hw, y |-> 0 - hl, width |-> c.thickness, height |-> c.length],
         [x |-> 0 - hw - c.thickness, y |-> 0 - hl, width |-> c.thickness, height |-> c.length]}

OnPerimeter(b, generation) ==
    \E e \in PerimeterEdges(generation) :
        /\ b.x < e.x + e.width
        /\ b.x + FiefdomBuildingTypes[b.name].width > e.x
        /\ b.y < e.y + e.height
        /\ b.y + FiefdomBuildingTypes[b.name].height > e.y

CascadeOf(db, fiefdom_id, generation) ==
    {b \in db.fiefdom_buildings :
        b.fiefdom_id = fiefdom_id /\ b.level >= 1 /\ OnPerimeter(b, generation)}

\* floor(80%) of what levels 1..b.level of the building cost in resource r.
ExpectedRefund(b, r) ==
    LET config == FiefdomBuildingTypes[b.name]
        field == CostFields[ResourceIndex(r)]
    IN  IF field \in DOMAIN config
        THEN (SumFirst(config[field], Min(b.level, Len(config[field]))) * 8) \div 10
        ELSE 0

RECURSIVE ExpectedRefundSum(_, _)
ExpectedRefundSum(buildings, r) ==
    IF buildings = {} THEN 0
    ELSE LET b == CHOOSE x \in buildings : TRUE
         IN  ExpectedRefund(b, r) + ExpectedRefundSum(buildings \ {b}, r)

WallPrice(generation, r) ==
    LET config == WallConfig.walls[generation]
        field == CostFields[ResourceIndex(r)]
    IN  IF field \in DOMAIN config THEN config[field][1] ELSE 0

SecondAdvance == Responded("advance") /\ request.previous # NoPrevious

C9_AdvanceIdempotent ==
    SecondAdvance /\ request.last_update_time = request.previous.new_timestamp =>
        /\ result.productions = <<>>
        /\ result.completed_trainings = <<>>
        /\ Balances(DB) = Balances(pre)
        /\ BuildingLevels(DB) = BuildingLevels(pre)
        /\ WallLevels(DB) = WallLevels(pre)

C9_Witness ==
    /\ SecondAdvance
    /\ request.last_update_time = request.previous.new_timestamp
    /\ now > request.previous.new_timestamp
    /\ \E b \in fiefdom_buildings :
           b.level = 0 /\ b.construction_start_ts > 0 /\ now - b.construction_start_ts >= 1

(***************************************************************************)
(* C10.  Calling advance twice in immediate succession with the same      *)
(* prior timestamp t0 leaves the balances and the levels that the first    *)
(* call left: the second call applies no further production or             *)
(* completion.                                                             *)
(***************************************************************************)
C10_SameArgumentIdempotent ==
    SecondAdvance /\ request.last_update_time = request.previous.last_update_time =>
        /\ result.productions = <<>>
        /\ result.completed_trainings = <<>>
        /\ Balances(DB) = Balances(pre)
        /\ BuildingLevels(DB) = BuildingLevels(pre)
        /\ WallLevels(DB) = WallLevels(pre)

(***************************************************************************)
(* Vocabulary of the claims about single buildings.                        *)
(***************************************************************************)
\* The row, before the call, of the building the request names.
Target == CHOOSE b \in pre.fiefdom_buildings : b.id = request.payload.building_id
TargetExists == Has("building_id") /\ request.payload.building_id \in {b.id : b \in pre.fiefdom_buildings}
NoFault == request.fault = "none"

FootprintOverlap(ax, ay, a_name, b) ==
    /\ ax < b.x + FiefdomBuildingTypes[b.name].width
    /\ ax + FiefdomBuildingTypes[a_name].width > b.x
    /\ ay < b.y + FiefdomBuildingTypes[b.name].height
    /\ ay + FiefdomBuildingTypes[a_name].height > b.y

DisjointIn(db, fiefdom_id) ==
    \A a, b \in db.fiefdom_buildings :
        a.id # b.id /\ a.fiefdom_id = fiefdom_id /\ b.fiefdom_id = fiefdom_id
            => ~FootprintOverlap(a.x, a.y, a.name, b)

\* A tenth of what the building's current level cost in resource r.
ExpectedMoveCost(b, r) ==
    LET config == FiefdomBuildingTypes[b.name]
        field == CostFields[ResourceIndex(r)]
    IN  IF field \in DOMAIN config /\ b.level >= 1 /\ b.level <= Len(config[field])
        THEN config[field][b.level] \div 10
        ELSE 0

(***************************************************************************)
(* C11.  Upgrade at the maximum: an upgrade that names a building whose    *)
(* level equals the max_level of its type returns FAIL and changes         *)
(* nothing, whatever the balances of the fiefdom are; the code is          *)
(* max_level_reached when the request gets past the checks validate makes  *)
(* first (fiefdom_id present, requester owns the fiefdom, the building is  *)
(* of that fiefdom).  The witness is such a refusal in a fiefdom that      *)
(* could not pay for anything.                                             *)
(***************************************************************************)
TargetAtMaxLevel == TargetExists /\ Target.level = FiefdomBuildingTypes[Target.name].max_level

C11_MaxLevelReached ==
    (Responded("upgrade") /\ TargetAtMaxLevel)
        => /\ result.status = "FAIL"
           /\ Unchanged
           /\ (/\ Has("fiefdom_id")
               /\ RequesterOwns(request.payload.fiefdom_id)
               /\ Target.fiefdom_id = request.payload.fiefdom_id)
                  => result.error_code = "max_level_reached"

C11_Witness ==
    /\ Responded("upgrade")
    /\ TargetAtMaxLevel
    /\ result.error_code = "max_level_reached"
    /\ pre.fiefdoms[request.payload.fiefdom_id].gold < 3
    /\ Unchanged

(***************************************************************************)
(* C12.  No self-collision on move: a move of an operational building that *)
(* is not a home_base to the anchor it already has returns OK, provided    *)
(* the requester owns it, the footprints of its fiefdom are pairwise       *)
(* disjoint, the fiefdom can pay the move cost and no write of the store   *)
(* fails.                                                                  *)
(***************************************************************************)
C12_MoveToOwnAnchor ==
    (/\ Responded("move")
     /\ TargetExists /\ Has("x") /\ Has("y")
     /\ NoFault
     /\ RequesterOwns(Target.fiefdom_id)
     /\ Target.name # "home_base"
     /\ Target.level >= 1
     /\ request.payload.x = Target.x /\ request.payload.y = Target.y
     /\ DisjointIn(pre, Target.fiefdom_id)
     /\ \A r \in ResourceSet : pre.fiefdoms[Target.fiefdom_id][r] >= ExpectedMoveCost(Target, r))
        => result.status = "OK"

(***************************************************************************)
(* C13.  Move onto a neighbour: a move of an owned operational building    *)
(* to an anchor where its footprint overlaps another building of its       *)
(* fiefdom (the fiefdom the request is made for) returns FAIL with code    *)
(* invalid_location, the placement check reports the other building's id,  *)
(* and the position and the balances stay as they were.                    *)
(***************************************************************************)
C13_MoveOntoNeighbour ==
    (/\ Responded("move")
     /\ TargetExists /\ Has("x") /\ Has("y")
     /\ RequesterOwns(Target.fiefdom_id)
     /\ request.ctx.requesting_fiefdom_id = Target.fiefdom_id
     /\ Target.name # "home_base"
     /\ Target.level >= 1)
        => \A o \in pre.fiefdom_buildings :
               (/\ o.id # Target.id
                /\ o.fiefdom_id = Target.fiefdom_id
                /\ FootprintOverlap(request.payload.x, request.payload.y, Target.name, o))
                   => /\ result.status = "FAIL"
                      /\ o.id \in checkPlacement(pre, Target.fiefdom_id, Target.name,
                                                 request.payload.x, request.payload.y,
                                                 FALSE, Target.id).overlapping_building_ids
                      /\ Unchanged
                      /\ result.error_code = "invalid_location"

(***************************************************************************)
(* C14.  Demolish refund: when demolish of a building of type T at level   *)
(* L returns OK (and no write of the store failed), the balance of the     *)
(* fiefdom that owns the building has risen, for each resource r, by       *)
(* floor(0.8 * (T's r-cost of levels 1..L)), the side effects hold one     *)
(* refund diff per refunded resource, the result is {building_id, refund}  *)
(* and the building's row is gone.  A refunded resource is one the levels  *)
(* 1..L cost something in (its refund may round down to 0).                *)
(***************************************************************************)
CumulativePaid(b, r) ==
    LET config == FiefdomBuildingTypes[b.name]
        field == CostFields[ResourceIndex(r)]
    IN  IF field \in DOMAIN config
        THEN SumFirst(config[field], Min(b.level, Len(config[field])))
        ELSE 0

RefundedResources(b) == {r \in ResourceSet : CumulativePaid(b, r) > 0}

C14_DemolishRefund ==
    (Succeeded("demolish") /\ NoFault) =>
        LET f == Target.fiefdom_id
        IN  /\ \A r \in ResourceSet :
                   fiefdoms[f][r] = pre.fiefdoms[f][r] + ExpectedRefund(Target, r)
            /\ Len(result.side_effects) = Cardinality(RefundedResources(Target))
            /\ \A r \in RefundedResources(Target) :
                   \E i \in DOMAIN result.side_effects :
                       /\ result.side_effects[i].field = r
                       /\ result.side_effects[i].source_id = f
                       /\ result.side_effects[i].to_value - result.side_effects[i].from_value
                              = ExpectedRefund(Target, r)
            /\ DOMAIN result.result = {"building_id", "refund"}
            /\ result.result.building_id = Target.id
            /\ DOMAIN result.result.refund = RefundedResources(Target)
            /\ \A r \in RefundedResources(Target) :
                   result.result.refund[r] = ExpectedRefund(Target, r)
            /\ Target.id \notin {b.id : b \in fiefdom_buildings}

(***************************************************************************)
(* C15.  Morale clamp: for every snapshot of buildings, walls, officials,  *)
(* heroes and stationed combatants and every catalogue, with boosts of     *)
(* either sign, the value the morale aggregator returns lies in            *)
(* [-1000, 1000].  The witness is a snapshot whose total is below -1000.   *)
(***************************************************************************)
MoraleResponded == pc = "responded" /\ request.op = "morale"

RequestTotalMorale ==
    TotalMorale(request.config, request.snapshot.buildings, request.snapshot.walls,
                request.snapshot.officials, request.snapshot.heroes, request.snapshot.combatants)

C15_MoraleClamp ==
    MoraleResponded => result.morale >= -1000 /\ result.morale <= 1000

C15_Witness ==
    /\ MoraleResponded
    /\ RequestTotalMorale < -1000
    /\ result.morale = -1000

ViaRegistry == pc = "responded" /\ request.op # "advance" /\ request.entry = "validateAndExecute"

C18_ValidateThenExecute ==
    ViaRegistry =>
        LET v == ActionRegistry_validate(request.op, pre, request.payload, request.ctx)
        IN  /\ request.op \notin RegisteredTypes
                => /\ result.status = "FAIL"
                   /\ result.error_code = "unknown_action"
                   /\ result.calls = <<>>
                   /\ Unchanged
            /\ request.op \in RegisteredTypes
                => /\ Len(result.calls) >= 1 /\ result.calls[1] = "validate_fn"
                   /\ v.status = "OK" <=> result.calls = <<"validate_fn", "execute_fn">>
                   /\ v.status # "OK"
                          => /\ result.calls = <<"validate_fn">>
                             /\ result.status = v.status
                             /\ result.error_code = v.error_code
                             /\ Unchanged

C18_Witness ==
    /\ ViaRegistry
    /\ request.op = "build_wall"
    /\ result.calls = <<"validate_fn", "execute_fn">>
    /\ result.status = "OK"
    /\ fiefdom_walls # pre.fiefdom_walls

(***************************************************************************)
(* C19.  Execute re-validates: a direct call of execute of build,          *)
(* demolish, move, upgrade or build_wall in a state where the handler's    *)
(* validate returns FAIL returns that FAIL result and mutates nothing, and *)
(* the persisted state differs from the state before the call only when    *)
(* execute returned OK.  The witness is a build_wall refused by validate's *)
(* last check, the balances.                                               *)
(***************************************************************************)
DirectExecute == ActionResponded /\ request.entry = "execute"

C19_ExecuteRevalidates ==
    DirectExecute =>
        LET v == ActionRegistry_validate(request.op, pre, request.payload, request.ctx)
        IN  /\ v.status = "FAIL"
                => /\ result.status = "FAIL"
                   /\ result.error_code = v.error_code
                   /\ result.side_effects = <<>>
                   /\ Unchanged
            /\ ~Unchanged => result.status = "OK"

C19_Witness ==
    /\ DirectExecute
    /\ request.op = "build_wall"
    /\ ActionRegistry_validate(request.op, pre, request.payload, request.ctx).error_code
           = "insufficient_resources"
    /\ result.status = "FAIL"
    /\ result.error_code = "insufficient_resources"
    /\ Unchanged

(***************************************************************************)
(* C20.  No exception: whatever the tag, the payload (fields of the wrong  *)
(* type and ids that name nothing included) and the store failure, a call  *)
(* of the engine returns an ActionResult, that is OK or FAIL, and no       *)
(* exception leaves it.                                                    *)
(***************************************************************************)
C20_NeverThrows ==
    (ActionResponded \/ ViaRegistry) => result.status \in {"OK", "FAIL"}

(***************************************************************************)
(* C21.  Stable error codes: whenever the validation of a handler refuses  *)
(* a request, the response is FAIL, its error_code is one of the codes the *)
(* interface enumerates, and the persisted state is unchanged.             *)
(***************************************************************************)
StableErrorCodes ==
    {"fiefdom_id_required", "building_type_required", "building_id_required",
     "wall_generation_required", "coordinates_required", "not_owner", "unknown_building",
     "unknown_action", "invalid_config", "invalid_location", "home_base_exists",
     "home_base_required", "home_base_immutable", "home_base_origin", "out_of_range",
     "cannot_move_under_construction", "upgrade_in_progress", "max_level_reached",
     "insufficient_resources", "generation_sequence_required", "generation_exists",
     "missing_wall_config", "invalid_wall_placement", "not_implemented", "database_error"}

ValidationRefused ==
    /\ ActionResponded \/ ViaRegistry
    /\ ActionRegistry_validate(request.op, pre, request.payload, request.ctx).status = "FAIL"

C21_StableErrorCodes ==
    ValidationRefused =>
        /\ result.status = "FAIL"
        /\ result.error_code \in StableErrorCodes
        /\ Unchanged

(***************************************************************************)
(* Vocabulary of the properties of invocations in parallel.                *)
(***************************************************************************)
ParallelDone == pc = "parallel" /\ \A i \in Invocations : inflight[i].at = "done"

\* The fiefdoms an invocation works on.
Touched(i) ==
    IF inflight[i].op = "build" THEN {inflight[i].payload.fiefdom_id}
    ELSE IF inflight[i].fiefdom_filter_id = 0 THEN FiefdomIds
    ELSE {inflight[i].fiefdom_filter_id}

\* The invocation run on its own, start to end, from the tables db.
Alone(db, i) ==
    IF inflight[i].op = "build"
    THEN BuildActionHandler_execute(db, inflight[i].payload, inflight[i].ctx, now, "none")
    ELSE [status |-> "OK", error_code |-> "",
          db |-> updateStateSince(db, inflight[i].last_update_time,
                                  inflight[i].fiefdom_filter_id, now).db]

SameOutcome(i, out) ==
    inflight[i].status = out.status /\ inflight[i].error_code = out.error_code

\* The run is the serial run of i, then j.
SerialOrder(i, j) ==
    /\ SameOutcome(i, Alone(pre, i))
    /\ SameOutcome(j, Alone(Alone(pre, i).db, j))
    /\ Tables(DB) = Tables(Alone(Alone(pre, i).db, j).db)

\* j met the conflict and had no effect: the run is the run of i alone.
ConflictSurfaced(i, j) ==
    /\ inflight[j].status = "FAIL" /\ inflight[j].error_code = "database_error"
    /\ SameOutcome(i, Alone(pre, i))
    /\ Tables(DB) = Tables(Alone(pre, i).db)

(***************************************************************************)
(* C22.  Two builds on the same fiefdom that run in parallel, interleaved  *)
(* statement by statement with validate's reads ahead of the transaction,  *)
(* end as one of their two serial orders ends, or with one of them         *)
(* answered FAIL database_error and without effect; so two builds on       *)
(* overlapping footprints never both commit.                               *)
(***************************************************************************)
C22_SerialisableBuilds ==
    (/\ ParallelDone
     /\ inflight[1].op = "build" /\ inflight[2].op = "build"
     /\ Touched(1) = Touched(2))
        => \/ SerialOrder(1, 2)
           \/ SerialOrder(2, 1)
           \/ ConflictSurfaced(1, 2)
           \/ ConflictSurfaced(2, 1)

(***************************************************************************)
(* C23.  Invocations on different fiefdoms that run in parallel over the   *)
(* shared handle have independent transactions: no BEGIN, COMMIT or        *)
(* ROLLBACK of the one commits or discards writes of the other, so each    *)
(* ends with all of its writes persisted or none: every fiefdom it works   *)
(* on is as before the run, or as the invocation alone leaves it.          *)
(***************************************************************************)
FiefdomPart(db, f) ==
    [row |-> db.fiefdoms[f],
     buildings |-> {[name |-> b.name, level |-> b.level, x |-> b.x, y |-> b.y,
                     construction_start_ts |-> b.construction_start_ts] :
                        b \in BuildingsOf(db, f)}]

EndsWhole(i) ==
    \A f \in Touched(i) :
        \/ FiefdomPart(DB, f) = FiefdomPart(pre, f)
        \/ FiefdomPart(DB, f) = FiefdomPart(Alone(pre, i).db, f)

C23_IndependentTransactions ==
    (ParallelDone /\ Touched(1) \cap Touched(2) = {})
        => EndsWhole(1) /\ EndsWhole(2)

(***************************************************************************)
(* C24.  Order of build's validation: a build request that fails one of    *)
(* the checks is answered FAIL with the code of the first check it fails   *)
(* in this order: fiefdom_id present, building_type present, x and y       *)
(* present, requester owns the fiefdom, type known, home base rule,        *)
(* placement.  A request without coordinates from somebody who does not    *)
(* own the fiefdom is answered coordinates_required.                       *)
(***************************************************************************)
PlacementFails ==
    \/ ~(/\ request.payload.x >= 0 - MAX_RANGE /\ request.payload.x <= MAX_RANGE
         /\ request.payload.y >= 0 - MAX_RANGE /\ request.payload.y <= MAX_RANGE)
    \/ request.payload.building_type = "home_base"
           /\ (request.payload.x # 0 \/ request.payload.y # 0)
    \/ \E b \in pre.fiefdom_buildings :
           /\ b.fiefdom_id = request.payload.fiefdom_id
           /\ FootprintOverlap(request.payload.x, request.payload.y,
                               request.payload.building_type, b)

FirstFailingBuildCheck ==
    IF "fiefdom_id" \notin DOMAIN request.payload THEN "fiefdom_id_required"
    ELSE IF "building_type" \notin DOMAIN request.payload THEN "building_type_required"
    ELSE IF "x" \notin DOMAIN request.payload \/ "y" \notin DOMAIN request.payload
         THEN "coordinates_required"
    ELSE IF ~RequesterOwns(request.payload.fiefdom_id) THEN "not_owner"
    ELSE IF request.payload.building_type \notin DOMAIN FiefdomBuildingTypes
         THEN "unknown_building"
    ELSE IF /\ request.payload.building_type = "home_base"
            /\ HomeBaseBuilt(pre, request.payload.fiefdom_id)
         THEN "home_base_exists"
    ELSE IF /\ request.payload.building_type # "home_base"
            /\ ~HomeBaseBuilt(pre, request.payload.fiefdom_id)
         THEN "home_base_required"
    ELSE IF PlacementFails THEN "invalid_location"
    ELSE ""

C24_BuildValidationOrder ==
    (/\ Responded("build")
     /\ "mistyped" \notin DOMAIN request.payload
     /\ FirstFailingBuildCheck # "")
        => /\ result.status = "FAIL"
           /\ result.error_code = FirstFailingBuildCheck

(***************************************************************************)
(* C25.  Effect of a build that returns OK: the fiefdom has exactly one    *)
(* new building row, of the requested type, at level 0, with               *)
(* construction_start_ts = now and the requested anchor; for each of the   *)
(* eight resources whose cost array the type configures the balance has    *)
(* gone down by the first entry of the array and a diff says so; every     *)
(* other balance is as before.                                             *)
(***************************************************************************)
NewBuildingRows == fiefdom_buildings \ pre.fiefdom_buildings

LevelZeroCost(building_type, r) ==
    LET config == FiefdomBuildingTypes[building_type]
        field == CostFields[ResourceIndex(r)]
    IN  IF field \in DOMAIN config THEN config[field][1] ELSE 0

Configures(building_type, r) ==
    CostFields[ResourceIndex(r)] \in DOMAIN FiefdomBuildingTypes[building_type]

C25_BuildEffect ==
    Succeeded("build") =>
        /\ pre.fiefdom_buildings \subseteq fiefdom_buildings
        /\ Cardinality(NewBuildingRows) = 1
        /\ \A b \in NewBuildingRows :
               /\ b.fiefdom_id = request.payload.fiefdom_id
               /\ b.name = request.payload.building_type
               /\ b.level = 0
               /\ b.construction_start_ts = result.action_timestamp
               /\ b.x = request.payload.x /\ b.y = request.payload.y
        /\ \A f \in FiefdomIds, r \in ResourceSet :
               IF f = request.payload.fiefdom_id /\ Configures(request.payload.building_type, r)
               THEN /\ fiefdoms[f][r] = pre.fiefdoms[f][r]
                                           - LevelZeroCost(request.payload.building_type, r)
                    /\ \E i \in DOMAIN result.side_effects :
                           /\ result.side_effects[i].field = r
                           /\ result.side_effects[i].source_id = f
                           /\ result.side_effects[i].from_value = pre.fiefdoms[f][r]
                           /\ result.side_effects[i].to_value = fiefdoms[f][r]
               ELSE fiefdoms[f][r] = pre.fiefdoms[f][r]

(***************************************************************************)
(* C26.  Upgrade of a building: for a building of the requester's fiefdom  *)
(* at a level k with 1 <= k < max_level, the upgrade returns               *)
(* insufficient_resources when some balance is below that resource's       *)
(* cost[k]; otherwise it returns OK, leaves the level at k, sets           *)
(* construction_start_ts to now, takes exactly cost[k] off each balance    *)
(* and reports upgrade_to_level = k + 1.                                   *)
(***************************************************************************)
NextLevelCost(b, r) ==
    LET config == FiefdomBuildingTypes[b.name]
        field == CostFields[ResourceIndex(r)]
    IN  IF field \in DOMAIN config /\ b.level < Len(config[field])
        THEN config[field][b.level + 1]
        ELSE 0

UpgradableTarget ==
    /\ Responded("upgrade")
    /\ NoFault
    /\ Has("fiefdom_id") /\ RequesterOwns(request.payload.fiefdom_id)
    /\ "wall_id" \notin DOMAIN request.payload
    /\ TargetExists
    /\ Target.fiefdom_id = request.payload.fiefdom_id
    /\ Target.level >= 1
    /\ Target.level < FiefdomBuildingTypes[Target.name].max_level

CanPayNextLevel ==
    \A r \in ResourceSet : pre.fiefdoms[Target.fiefdom_id][r] >= NextLevelCost(Target, r)

C26_UpgradeBuilding ==
    UpgradableTarget =>
        IF ~CanPayNextLevel
        THEN /\ result.status = "FAIL"
             /\ result.error_code = "insufficient_resources"
             /\ Unchanged
        ELSE /\ result.status = "OK"
             /\ \E b \in fiefdom_buildings :
                    /\ b.id = Target.id
                    /\ b.level = Target.level
                    /\ b.construction_start_ts = result.action_timestamp
             /\ \A r \in ResourceSet :
                    fiefdoms[Target.fiefdom_id][r]
                        = pre.fiefdoms[Target.fiefdom_id][r] - NextLevelCost(Target, r)
             /\ result.result.upgrade_to_level = Target.level + 1

(***************************************************************************)
(* C27.  Upgrade takes exactly one target: an upgrade request that carries *)
(* both building_id and wall_id, or neither, is refused by validation and  *)
(* changes nothing, so no single upgrade call upgrades a building and a    *)
(* wall.                                                                   *)
(***************************************************************************)
UpgradeTargets == {"building_id", "wall_id"} \cap DOMAIN request.payload

RanLoops == 1000 * (result.new_timestamp - request.last_update_time) >= 3600

InScope(fiefdom_id) == request.fiefdom_filter_id \in {0, fiefdom_id}

AdvanceCommitted == Responded("advance") /\ result.status = "OK"

\* construction_times[k] of the type, continued along the line through its
\* last two entries when k overruns the array.
TransitionTime(name, k) ==
    LET times == FiefdomBuildingTypes[name].construction_times
        n == Len(times)
    IN  IF k < n THEN times[k + 1]
        ELSE times[n] + (times[n] - times[n - 1]) * (k - (n - 1))

Due(b) ==
    /\ b.construction_start_ts > 0
    /\ result.new_timestamp - b.construction_start_ts >= TransitionTime(b.name, b.level)

RowAfter(id) == CHOOSE b \in fiefdom_buildings : b.id = id

BuildingCompletions ==
    {i \in DOMAIN result.completed_trainings : result.completed_trainings[i].generation = 0}

CompletionsOf(name, level) ==
    {i \in BuildingCompletions : /\ result.completed_trainings[i].name = name
                                 /\ result.completed_trainings[i].level = level}

\* What the claim says of the buildings for which promote holds: they move
\* up one level with one completion each, all others stay as they were.
PromotesExactly(promote(_)) ==
    /\ \A b \in pre.fiefdom_buildings :
           IF promote(b)
           THEN /\ RowAfter(b.id).level = b.level + 1
                /\ RowAfter(b.id).construction_start_ts = 0
                /\ Cardinality(CompletionsOf(b.name, b.level + 1))
                       = Cardinality({c \in pre.fiefdom_buildings :
                                         promote(c) /\ c.name = b.name /\ c.level = b.level})
           ELSE /\ RowAfter(b.id).level = b.level
                /\ RowAfter(b.id).construction_start_ts = b.construction_start_ts
    /\ Cardinality(BuildingCompletions)
           = Cardinality({b \in pre.fiefdom_buildings : promote(b)})

DueInScope(b) == InScope(b.fiefdom_id) /\ Due(b)

DueAndReached(b) == RanLoops /\ InScope(b.fiefdom_id) /\ Due(b)

RECURSIVE SumProduced(_, _, _)
SumProduced(productions, fiefdom_id, r) ==
    IF productions = <<>> THEN 0
    ELSE (IF Head(productions).fiefdom_id = fiefdom_id /\ Head(productions).resource_type = r
          THEN Head(productions).amount_produced ELSE 0)
             + SumProduced(Tail(productions), fiefdom_id, r)

ProductionOfBuilding(b) ==
    {i \in DOMAIN result.productions : result.productions[i].source_id = b.id}

\* The cycles of grain a farm completes in the elapsed time of the call.
GrainCycles ==
    (result.new_timestamp - request.last_update_time)
        \div FiefdomBuildingTypes["farm"].grain.periodicity_seconds

C29_BalancesAddUp ==
    (AdvanceCommitted /\ RanLoops)
        => \A f \in FiefdomIds : InScope(f) =>
               \A r \in Range(ProductionFields) :
                   fiefdoms[f][r] = pre.fiefdoms[f][r] + SumProduced(result.productions, f, r)

\* The records themselves are as the claim says: one of amount * n per
\* operational farm in scope, none for a building at level 0.
C29_RecordsPerBuilding ==
    (AdvanceCommitted /\ RanLoops)
        => \A b \in fiefdom_buildings :
               IF b.name = "farm" /\ b.level > 0 /\ InScope(b.fiefdom_id) /\ GrainCycles > 0
               THEN \E i \in DOMAIN result.productions :
                        /\ ProductionOfBuilding(b) = {i}
                        /\ result.productions[i].resource_type = "grain"
                        /\ result.productions[i].amount_produced
                               = FiefdomBuildingTypes["farm"].grain.amount * GrainCycles
               ELSE ProductionOfBuilding(b) = {}

(***************************************************************************)
(* C30: when a statement throws while advance processes a fiefdom of its   *)
(* batch, no fiefdom's persisted state changes and the TimeUpdateResult    *)
(* handed back reports no productions, no completions and                  *)
(* fiefdoms_updated = 0.                                                   *)
(***************************************************************************)
AdvanceThrew == Responded("advance") /\ result.status = "ROLLED_BACK"

C30_NoPartialSuccess ==
    AdvanceThrew => /\ Unchanged
                    /\ result.productions = <<>>
                    /\ result.completed_trainings = <<>>
                    /\ result.fiefdoms_updated = 0

\* The half of C30 about the store alone.
C30_BatchRolledBack == AdvanceThrew => Unchanged

\* The throw comes on the second fiefdom of a batch whose first fiefdom
\* had productions: the result still lists them and counts the fiefdom.
C30_PartialResultReturned ==
    /\ AdvanceThrew
    /\ request.failing_fiefdom = 2
    /\ Unchanged
    /\ result.fiefdoms_updated = 1
    /\ \E i \in DOMAIN result.productions : result.productions[i].fiefdom_id = 1

(***************************************************************************)
(* C31: an advance that reached its COMMIT sets last_update_time to        *)
(* new_timestamp on every fiefdom in its scope and only there: a fiefdom   *)
(* outside the filter keeps its row, its buildings and its walls; and no   *)
(* advance creates or deletes a row, moves a building or changes a         *)
(* fiefdom's owner.                                                        *)
(***************************************************************************)
SameRowIds ==
    /\ {b.id : b \in fiefdom_buildings} = {b.id : b \in pre.fiefdom_buildings}
    /\ {w.id : w \in fiefdom_walls} = {w.id : w \in pre.fiefdom_walls}
    /\ Cardinality(fiefdom_buildings) = Cardinality(pre.fiefdom_buildings)
    /\ Cardinality(fiefdom_walls) = Cardinality(pre.fiefdom_walls)
    /\ DOMAIN fiefdoms = DOMAIN pre.fiefdoms

NothingMovesOrChangesHands ==
    /\ \A b \in pre.fiefdom_buildings :
           /\ RowAfter(b.id).x = b.x /\ RowAfter(b.id).y = b.y
           /\ RowAfter(b.id).fiefdom_id = b.fiefdom_id
           /\ RowAfter(b.id).name = b.name
    /\ \A f \in DOMAIN pre.fiefdoms : fiefdoms[f].owner_id = pre.fiefdoms[f].owner_id

FiefdomUntouched(f) ==
    /\ fiefdoms[f] = pre.fiefdoms[f]
    /\ {b \in fiefdom_buildings : b.fiefdom_id = f}
           = {b \in pre.fiefdom_buildings : b.fiefdom_id = f}
    /\ {w \in fiefdom_walls : w.fiefdom_id = f}
           = {w \in pre.fiefdom_walls : w.fiefdom_id = f}

C31_AdvanceFrame ==
    Responded("advance")
        => /\ SameRowIds
           /\ NothingMovesOrChangesHands
           /\ (result.status = "OK" /\ RanLoops)
                  => \A f \in FiefdomIds :
                         IF InScope(f)
                         THEN fiefdoms[f].last_update_time = result.new_timestamp
                         ELSE FiefdomUntouched(f)

\* advance filtered to fiefdom 1 while fiefdom 2 holds a wall whose
\* construction is due: fiefdom 1 gets the new timestamp and a completion,
\* the wall stays as it was.
C31_Witness ==
    /\ AdvanceCommitted /\ RanLoops
    /\ request.fiefdom_filter_id = 1
    /\ fiefdoms[1].last_update_time = result.new_timestamp
    /\ pre.fiefdoms[1].last_update_time # result.new_timestamp
    /\ result.completed_trainings # <<>>
    /\ \E w \in fiefdom_walls :
           /\ w.fiefdom_id = 2 /\ w.construction_start_ts > 0
           /\ result.new_timestamp - w.construction_start_ts >= 1

(***************************************************************************)
(* C32: the contribution of a building type to the morale total uses       *)
(* n = the number of its operational instances (level >= 1): add gives     *)
(* boost * n, max gives boost when n > 0, multiply gives boost^n; a        *)
(* building at level 0 is not counted and a type with n = 0 contributes 0. *)
(* The snapshots hold farms only besides a type without configuration, so  *)
(* the farms' contribution is the whole building part of the total.        *)
(***************************************************************************)
OperationalFarms ==
    Cardinality({i \in DOMAIN request.snapshot.buildings :
                    /\ request.snapshot.buildings[i].name = "farm"
                    /\ request.snapshot.buildings[i].level >= 1})

RECURSIVE Power(_, _)
Power(base, n) == IF n = 0 THEN 1 ELSE base * Power(base, n - 1)

FarmContribution ==
    LET boost == request.config.building_types.farm.morale_boost
        mode == request.config.building_types.farm.morale_effect_mode
        n == OperationalFarms
    IN  IF n = 0 THEN 0
        ELSE IF mode = "max" THEN boost
        ELSE IF mode = "multiply" THEN Power(boost, n)
        ELSE boost * n

\* The total when the buildings contribute as the claim says.
ClaimedTotalMorale ==
    FarmContribution
        + calculateWallMorale(request.config, request.snapshot.walls)
        + RegistryMorale(request.config.officials, request.snapshot.officials)
        + RegistryMorale(request.config.heroes, request.snapshot.heroes)
        + RegistryMorale(request.config.combatants, request.snapshot.combatants)

C32_OperationalInstancesCount ==
    MoraleResponded => result.morale = clampMorale(ClaimedTotalMorale)

\* The same, for the snapshots without a building at level 0.
C32_WhenAllOperational ==
    (/\ MoraleResponded
     /\ \A i \in DOMAIN request.snapshot.buildings : request.snapshot.buildings[i].level >= 1)
        => result.morale = clampMorale(ClaimedTotalMorale)

(***************************************************************************)
(* C33: in every reachable state a fiefdom has at most one home_base row,  *)
(* rows under construction included, and that row is anchored at (0, 0);   *)
(* a build of a home_base at other coordinates fails and changes nothing,  *)
(* and no call changes the position of a home_base.                        *)
(***************************************************************************)
HomeBases(db, fiefdom_id) ==
    {b \in db.fiefdom_buildings : b.fiefdom_id = fiefdom_id /\ b.name = "home_base"}

HomeBaseOffOrigin ==
    /\ Has("building_type") /\ request.payload.building_type = "home_base"
    /\ Has("x") /\ Has("y")
    /\ <<request.payload.x, request.payload.y>> # <<0, 0>>

C33_OneHomeBaseAtOrigin ==
    /\ \A f \in FiefdomIds : Cardinality(HomeBases(DB, f)) <= 1
    /\ \A b \in fiefdom_buildings : b.name = "home_base" => b.x = 0 /\ b.y = 0
    /\ (Responded("build") /\ HomeBaseOffOrigin) => (result.status = "FAIL" /\ Unchanged)
    /\ pc = "responded"
           => \A b \in pre.fiefdom_buildings : \A c \in fiefdom_buildings :
                  (b.name = "home_base" /\ c.id = b.id) => (c.x = b.x /\ c.y = b.y)

\* The owner of a fiefdom that has no home base yet asks for one at (2, 0),
\* a free place within range: refused.
C33_Witness ==
    /\ Responded("build") /\ HomeBaseOffOrigin
    /\ Has("fiefdom_id") /\ RequesterOwns(request.payload.fiefdom_id)
    /\ HomeBases(pre, request.payload.fiefdom_id) = {}
    /\ request.payload.x = 2 /\ request.payload.y = 0
    /\ result.status = "FAIL"
    /\ result.error_code = "invalid_location"

(***************************************************************************)
(* C34: every building's anchor satisfies -1000 <= x, y <= 1000 in every   *)
(* reachable state: a build or move whose target has |x| > 1000 or         *)
(* |y| > 1000 is refused before any collision test and changes nothing.    *)
(***************************************************************************)
OutOfEnvelope(x, y) == x < -1000 \/ x > 1000 \/ y < -1000 \/ y > 1000

TargetOutOfEnvelope ==
    /\ Has("x") /\ Has("y")
    /\ OutOfEnvelope(request.payload.x, request.payload.y)

C34_AnchorsInEnvelope ==
    /\ \A b \in fiefdom_buildings : ~OutOfEnvelope(b.x, b.y)
    /\ ((Responded("build") \/ Responded("move")) /\ TargetOutOfEnvelope)
           => (result.status = "FAIL" /\ Unchanged)

\* An owner's move of an own, completed farm to (1001, 0): refused by the
\* placement check.
C34_Witness ==
    /\ Responded("move") /\ TargetOutOfEnvelope
    /\ TargetExists /\ Target.name = "farm" /\ Target.fiefdom_id = 1 /\ Target.level >= 1
    /\ Has("fiefdom_id") /\ request.payload.fiefdom_id = 1
    /\ result.status = "FAIL"
    /\ result.error_code = "move_location_invalid"
    /\ Unchanged

(***************************************************************************)
(* C35: when the configuration load failed at startup (the cache's loaded  *)
(* flag is false), every build, upgrade and build_wall returns FAIL and    *)
(* changes nothing (the claim names the code invalid_config for it); and   *)
(* no action modifies the cached configuration.                            *)
(***************************************************************************)
ConfigDependent == Responded("build") \/ Responded("upgrade") \/ Responded("build_wall")

C35_FailsWithoutConfig ==
    (~loaded_ /\ ConfigDependent) => (result.status = "FAIL" /\ Unchanged)

\* The flag itself is never written after startup.
C35_CacheNeverModified == [][loaded_' = loaded_]_vars

\* With the cache not loaded, an owner's build of a home base is carried
\* out: the row is inserted and the costs are deducted.
C35_BuiltWithoutConfig ==
    /\ ~loaded_
    /\ Responded("build")
    /\ result.status = "OK"
    /\ ~Unchanged

(***************************************************************************)
(* C36: in every state reachable by build, upgrade and advance, the level  *)
(* of a building is at most the max_level configured for its type.         *)
(***************************************************************************)
C36_LevelWithinMax ==
    \A b \in fiefdom_buildings : b.level <= FiefdomBuildingTypes[b.name].max_level

\* A farm that upgrade scheduled at level 1 is raised by advance to level
\* 2, the max_level of its type.
C36_Witness ==
    /\ Responded("advance")
    /\ \E b \in pre.fiefdom_buildings :
           /\ b.name = "farm" /\ b.level = 1 /\ b.construction_start_ts > 0
           /\ RowAfter(b.id).level = 2
           /\ FiefdomBuildingTypes["farm"].max_level = 2

C37_AdvanceLeavesWallLevels ==
    Responded("advance") => (WallLevels(DB) = WallLevels(pre))

(***************************************************************************)
(* C38: an action sent by a character changes nothing in a fiefdom that    *)
(* character does not own; the refund of a demolish and the cost of a move *)
(* fall on the fiefdom owning the building, whatever fiefdom the request   *)
(* names.                                                                  *)
(***************************************************************************)
C38_OnlyOwnFiefdomChanges ==
    ActionResponded =>
        \A f \in FiefdomIds :
            (pre.fiefdoms[f].owner_id # request.ctx.requesting_character_id)
                => FiefdomUntouched(f)

(***************************************************************************)
(* C39: an upgrade request for a building whose upgrade is pending (level  *)
(* at least 1, construction_start_ts not 0) returns FAIL and leaves the    *)
(* tables, construction_start_ts included, as they were.                   *)
(***************************************************************************)
TargetUpgradePending ==
    /\ TargetExists
    /\ Target.level >= 1
    /\ Target.construction_start_ts # 0

C39_PendingUpgradeRefused ==
    (Responded("upgrade") /\ TargetUpgradePending)
        => (result.status = "FAIL" /\ Unchanged)

====
